---- MODULE Spec2Model ----
(***************************************************************************)
(* A model of the tgcryptfs storage engine.                                *)
(*                                                                         *)
(* Part 1: raid/stripe.rs  - StripeManager (placement, encode, decode,     *)
(*                           StripeInfo construction).                     *)
(* Part 2: raid/rebuild.rs - RebuildManager (rebuild_account, scrub).      *)
(*                                                                         *)
(* Every part has its own variables, its own initial predicate and its own *)
(* specification; a part leaves the variables of the other parts alone.    *)
(***************************************************************************)
EXTENDS Integers, Sequences, FiniteSets, TLC

VARIABLES
    sm,        \* the StripeManager under test (NoManager before new)
    stripe,    \* the Stripe last returned by create_stripe (NoStripe before)
    input,     \* the data and stripe_index that create_stripe call was given
    res,       \* the last call on the StripeManager and what it returned
    pool,      \* rebuild: the AccountPool's configuration (K, N, accounts)
    stripes,   \* rebuild: the ErasureChunkRef list handed to rebuild/scrub
    remote,    \* rebuild: per account, message id -> blob held by the backend
    health,    \* rebuild: per account, the HealthTracker's record
    run,       \* rebuild: the running rebuild_account / scrub call
    known_chunks, \* dedup: DedupTracker::known_chunks
    dedupLog,  \* dedup: the calls made on the tracker and what they returned
    chunker,   \* chunker: the last call on the Chunker and what it returned
    versions,  \* version: VersionManager::versions, inode -> Vec<FileVersion>
    max_versions, \* version: VersionManager::max_versions
    versionLog,\* version: what add_version returned and evicted so far
    order,     \* lru: LruCache::order (front first)
    positions, \* lru: LruCache::positions, key -> generation
    generation,\* lru: LruCache::generation
    lruLog,    \* lru: the uses of the keys and what pop_oldest returned
    next_id,   \* handle: per manager, next_id / next_fh
    handles,   \* handle: per manager, the open handles
    callers,   \* handle: per thread, where it is in open
    handleLog, \* handle: per manager, the ids open has returned
    write_buffer, \* write: FileHandle::write_buffer of one open handle
    dirty,     \* write: FileHandle::dirty of that handle
    writers,   \* write: per thread, where it is in FileHandle::write
    writeLog,  \* write: the writes in the order they took the buffer lock
    tg,        \* client: what the Telegram side does with each attempt, and its blobs
    call,      \* client: the running upload / download call of TelegramBackend
    callLog,   \* client: the attempts and sleeps of the call, and its result
    backoff,   \* backoff: the ExponentialBackoff under test
    backoffLog,\* backoff: the calls made on it and what they returned
    limiter,   \* limiter: the RateLimiter (permits, last_op)
    tasks,     \* limiter: per task, where it is in acquire
    now,       \* limiter: the clock
    limiterLog,\* limiter: the instants at which acquire calls were granted
    db,        \* migration: the metadata tree, key -> stored bytes
    migLog,    \* migration: the entries as first stored, and the runs made
    inode,     \* inode: the Inode last created and the call that made it
    config,    \* config: the last Config::load / from_env call and its result
    flush,     \* flush: where the flusher of the FileHandle is, and its snapshot
    migrator,  \* raid migrate: the MigrationManager (config and counters)
    mstore,    \* raid migrate: the messages of the source and the blocks of the pool
    mcall,     \* raid migrate: the running migrate_manifest call and what it did
    daemon,    \* sync: the SyncDaemon (role, shutdown flag, status)
    syncTasks, \* sync: where the loop of start and the sync_now call are
    syncLog,   \* sync: the calls made on the SnapshotManager, and the attempts begun
    overlay,   \* overlay: the OverlayInodeManager (next_ino, inodes, path_to_ino)
    overlayLog \* overlay: the calls made on it and what alloc_ino returned

stripeVars == <<sm, stripe, input, res>>
rebuildVars == <<pool, stripes, remote, health, run>>
dedupVars == <<known_chunks, dedupLog>>
chunkerVars == <<chunker>>
versionVars == <<versions, max_versions, versionLog>>
lruVars == <<order, positions, generation, lruLog>>
handleVars == <<next_id, handles, callers, handleLog>>
writeVars == <<write_buffer, dirty, writers, writeLog>>
clientVars == <<tg, call, callLog>>
backoffVars == <<backoff, backoffLog>>
limiterVars == <<limiter, tasks, now, limiterLog>>
migrationVars == <<db, migLog>>
inodeVars == <<inode>>
configVars == <<config>>
earlierVars == <<stripeVars, rebuildVars, dedupVars, chunkerVars, versionVars, lruVars, handleVars>>
flushVars == <<flush>>
middleVars == <<writeVars, clientVars, backoffVars, limiterVars, migrationVars, inodeVars, configVars>>
raidMigrateVars == <<migrator, mstore, mcall>>
syncVars == <<daemon, syncTasks, syncLog>>
overlayVars == <<overlay, overlayLog>>
lastVars == <<flushVars, raidMigrateVars, syncVars, overlayVars>>
laterVars == <<middleVars, lastVars>>
vars == <<sm, stripe, input, res, pool, stripes, remote, health, run,
          known_chunks, dedupLog, chunker, versions, max_versions, versionLog,
          order, positions, generation, lruLog,
          next_id, handles, callers, handleLog,
          write_buffer, dirty, writers, writeLog, tg, call, callLog,
          backoff, backoffLog, limiter, tasks, now, limiterLog,
          db, migLog, inode, config,
          flush, migrator, mstore, mcall, daemon, syncTasks, syncLog,
          overlay, overlayLog>>

\* What the actions of one part leave alone: the variables of the other parts
notStripe == <<rebuildVars, dedupVars, chunkerVars, versionVars, lruVars, handleVars,
    laterVars>>
notRebuild == <<stripeVars, dedupVars, chunkerVars, versionVars, lruVars, handleVars,
    laterVars>>
notDedup == <<stripeVars, rebuildVars, chunkerVars, versionVars, lruVars, handleVars,
    laterVars>>
notChunker == <<stripeVars, rebuildVars, dedupVars, versionVars, lruVars, handleVars,
    laterVars>>
notVersion == <<stripeVars, rebuildVars, dedupVars, chunkerVars, lruVars, handleVars,
    laterVars>>
notLru == <<stripeVars, rebuildVars, dedupVars, chunkerVars, versionVars, handleVars,
    laterVars>>
notHandle == <<stripeVars, rebuildVars, dedupVars, chunkerVars, versionVars, lruVars,
    laterVars>>
notWrite == <<earlierVars, clientVars, backoffVars, limiterVars, migrationVars, inodeVars, configVars,
    lastVars>>
notClient == <<earlierVars, writeVars, backoffVars, limiterVars, migrationVars, inodeVars, configVars,
    lastVars>>
notBackoff == <<earlierVars, writeVars, clientVars, limiterVars, migrationVars, inodeVars, configVars,
    lastVars>>
notLimiter == <<earlierVars, writeVars, clientVars, backoffVars, migrationVars, inodeVars, configVars,
    lastVars>>
notMigration == <<earlierVars, writeVars, clientVars, backoffVars, limiterVars, inodeVars, configVars,
    lastVars>>
notInode == <<earlierVars, writeVars, clientVars, backoffVars, limiterVars, migrationVars, configVars,
    lastVars>>
notConfig == <<earlierVars, writeVars, clientVars, backoffVars, limiterVars, migrationVars, inodeVars,
    lastVars>>
notFlush == <<earlierVars, clientVars, backoffVars, limiterVars, migrationVars, inodeVars, configVars,
    raidMigrateVars, syncVars, overlayVars>>
notRaidMigrate == <<earlierVars, middleVars, flushVars, syncVars, overlayVars>>
notSync == <<earlierVars, middleVars, flushVars, raidMigrateVars, overlayVars>>
notOverlay == <<earlierVars, middleVars, flushVars, raidMigrateVars, syncVars>>

\* The parts before anything is constructed or called
DedupIdle == known_chunks = {} /\ dedupLog = <<>>
ChunkerIdle == chunker = [op |-> "none"]
VersionIdle ==
    /\ versions = <<>> /\ max_versions = 0
    /\ versionLog = [calls |-> <<>>, query |-> [op |-> "none"]]
LruIdle == order = <<>> /\ positions = <<>> /\ generation = 0 /\ lruLog = <<>>
HandleIdle == next_id = <<>> /\ handles = <<>> /\ callers = <<>> /\ handleLog = <<>>
WriteIdle == write_buffer = <<>> /\ dirty = FALSE /\ writers = <<>> /\ writeLog = <<>>
ClientIdle == tg = <<>> /\ call = <<>> /\ callLog = <<>>
BackoffIdle == backoff = <<>> /\ backoffLog = <<>>
LimiterIdle == limiter = <<>> /\ tasks = <<>> /\ now = 0 /\ limiterLog = <<>>
MigrationIdle == db = <<>> /\ migLog = <<>>
InodeIdle == inode = <<>>
ConfigIdle == config = <<>>
FlushIdle == flush = <<>>
RaidMigrateIdle == migrator = <<>> /\ mstore = <<>> /\ mcall = <<>>
SyncIdle == daemon = <<>> /\ syncTasks = <<>> /\ syncLog = <<>>
OverlayIdle == overlay = <<>> /\ overlayLog = <<>>
LastIdle == FlushIdle /\ RaidMigrateIdle /\ SyncIdle /\ OverlayIdle
MiddleIdle ==
    /\ WriteIdle /\ ClientIdle /\ BackoffIdle /\ LimiterIdle
    /\ MigrationIdle /\ InodeIdle /\ ConfigIdle
LaterIdle == MiddleIdle /\ LastIdle

----------------------------------------------------------------------------
(* Rust's Option and Result *)

None == [some |-> FALSE]
Some(v) == [some |-> TRUE, v |-> v]
is_some(o) == o.some
is_none(o) == ~o.some
Ok(v) == [ok |-> TRUE, v |-> v]
Err(e) == [ok |-> FALSE, err |-> e]

U8 == 256
as_u8(n) == n % U8

----------------------------------------------------------------------------
(* Bounds of the model *)

MaxShards == 3        \* total_shards (N) offered to StripeManager::new
MaxAccounts == 4      \* num_accounts offered to StripeManager::new
MaxStripeIndex == 4   \* stripe_index offered to get_assignments / create_stripe
MaxDataLen == 2       \* length of the plaintext handed to create_stripe

Bytes == {0, 1, 255}  \* the byte values plaintexts are drawn from

RECURSIVE SeqsUpTo(_, _)
SeqsUpTo(S, n) ==
    IF n = 0 THEN {<<>>}
    ELSE LET shorter == SeqsUpTo(S, n - 1)
         IN shorter \cup {Append(s, x) : s \in {t \in shorter : Len(t) = n - 1}, x \in S}

Plaintexts == SeqsUpTo(Bytes, MaxDataLen)

----------------------------------------------------------------------------
(* raid/erasure.rs (not among the sources): Reed-Solomon over GF(2^8).     *)
(* The code word of K data symbols d_0..d_(K-1) is the polynomial of       *)
(* degree < K through the points (i, d_i), evaluated at 0..N-1: a          *)
(* Vandermonde matrix made systematic.                                     *)

GFPoly == 285   \* x^8 + x^4 + x^3 + x^2 + 1

RECURSIVE gf_add(_, _)
gf_add(a, b) ==
    IF a = 0 THEN b
    ELSE IF b = 0 THEN a
    ELSE (((a % 2) + (b % 2)) % 2) + 2 * gf_add(a \div 2, b \div 2)

gf_xtime(a) == IF 2 * a >= U8 THEN gf_add(2 * a, GFPoly) ELSE 2 * a

RECURSIVE gf_mul(_, _)
gf_mul(a, b) ==
    IF a = 0 \/ b = 0 THEN 0
    ELSE gf_add(IF b % 2 = 1 THEN a ELSE 0, gf_mul(gf_xtime(a), b \div 2))

RECURSIVE gf_pow(_, _)
gf_pow(a, n) ==
    IF n = 0 THEN 1
    ELSE LET h == gf_pow(a, n \div 2)
             sq == gf_mul(h, h)
         IN IF n % 2 = 1 THEN gf_mul(sq, a) ELSE sq

gf_inv(a) == gf_pow(a, U8 - 2)

RECURSIVE gf_prod(_, _)
gf_prod(S, f) ==
    IF S = {} THEN 1
    ELSE LET j == CHOOSE j \in S : TRUE
         IN gf_mul(f[j], gf_prod(S \ {j}, f))

RECURSIVE gf_sum(_, _)
gf_sum(S, f) ==
    IF S = {} THEN 0
    ELSE LET j == CHOOSE j \in S : TRUE
         IN gf_add(f[j], gf_sum(S \ {j}, f))

\* The Lagrange coefficient of point i among the points P, at x
lagrange(P, i, x) ==
    gf_prod(P \ {i}, [j \in P \ {i} |-> gf_mul(gf_add(x, j), gf_inv(gf_add(i, j)))])

\* The value at x of the polynomial through the points (i, val[i]), i \in P
interpolate(P, val, x) ==
    gf_sum(P, [i \in P |-> gf_mul(val[i], lagrange(P, i, x))])

CeilDiv(a, b) == (a + b - 1) \div b

Zeros(n) == [i \in 1..n |-> 0]

\* Encoder::new: 1 <= K < N
encoder_new(data_shards, total_shards) ==
    IF data_shards = 0 \/ data_shards >= total_shards
    THEN Err("Config")
    ELSE Ok([data_shards |-> data_shards, total_shards |-> total_shards])

\* Encoder::encode: the length of the data, the data, zero padding; cut into
\* K data shards of equal size, followed by N - K parity shards.
encode(enc, data) ==
    LET K == enc.data_shards
        N == enc.total_shards
        payload == <<Len(data)>> \o data
        size == CeilDiv(Len(payload), K)
        padded == payload \o Zeros(K * size - Len(payload))
        shard(i) == SubSeq(padded, i * size + 1, (i + 1) * size)
        dataVal(p) == [i \in 0..K-1 |-> shard(i)[p]]
    IN Ok([b \in 0..N-1 |->
              IF b < K THEN shard(b)
              ELSE [p \in 1..size |-> interpolate(0..K-1, dataVal(p), b)]])

RECURSIVE Smallest(_, _)
Smallest(S, k) ==
    IF k = 0 \/ S = {} THEN {}
    ELSE LET m == CHOOSE m \in S : \A o \in S : m <= o
         IN {m} \cup Smallest(S \ {m}, k - 1)

RECURSIVE Concat(_, _, _)
Concat(f, from, to) ==
    IF from > to THEN <<>> ELSE f[from] \o Concat(f, from + 1, to)

\* The end of Encoder::decode: the length header cuts the padding off
strip_header(padded) ==
    IF padded = <<>> \/ padded[1] > Len(padded) - 1
    THEN Err("InvalidLength")
    ELSE Ok(SubSeq(padded, 2, padded[1] + 1))

\* Encoder::decode: the shards are indexed 0..N-1, None where missing.  Any
\* K shards present rebuild the data shards; the length header cuts the
\* padding off.
decode(enc, shards) ==
    LET K == enc.data_shards
        N == enc.total_shards
        present == {b \in 0..N-1 : is_some(shards[b])}
        sizes == {Len(shards[b].v) : b \in present}
        use == Smallest(present, K)
    IN IF Cardinality(present) < K THEN Err("TooFewShards")
       ELSE IF Cardinality(sizes) # 1 THEN Err("IncorrectShardSize")
       ELSE LET size == CHOOSE s \in sizes : TRUE
                val(p) == [b \in use |-> shards[b].v[p]]
                dataShard == [i \in 0..K-1 |->
                    IF i \in present THEN shards[i].v
                    ELSE [p \in 1..size |-> interpolate(use, val(p), i)]]
            IN strip_header(Concat(dataShard, 0, K - 1))

----------------------------------------------------------------------------
(* raid/stripe.rs *)

NoManager == [state |-> "none"]
NoStripe == [state |-> "none"]
NoCall == [op |-> "none"]

\* StripeManager::new
StripeManager_new(data_shards, total_shards, num_accounts) ==
    IF num_accounts = 0 THEN Err("Config")
    ELSE IF num_accounts < total_shards THEN Err("Config")
    ELSE LET e == encoder_new(data_shards, total_shards)
         IN IF ~e.ok THEN e
            ELSE Ok([encoder |-> e.v, num_accounts |-> num_accounts])

\* get_assignments with the parity blocks folded onto the data blocks' accounts
get_assignments_folded(m, stripe_index) ==
    LET total_shards == m.encoder.total_shards
        rotation == stripe_index % total_shards
    IN [block_idx \in 0..total_shards-1 |->
           as_u8(((block_idx % m.encoder.data_shards) + rotation) % m.num_accounts)]

\* StripeManager::get_assignments
get_assignments(m, stripe_index) ==
    LET total_shards == m.encoder.total_shards
        rotation == stripe_index % total_shards
    IN [block_idx \in 0..total_shards-1 |->
           as_u8((block_idx + rotation) % m.num_accounts)]

\* StripeManager::create_stripe
create_stripe(m, chunk_id, data, stripe_index) ==
    LET blocks == encode(m.encoder, data)
    IN IF ~blocks.ok THEN blocks
       ELSE Ok([chunk_id |-> chunk_id,
                blocks |-> blocks.v,
                assignments |-> get_assignments(m, stripe_index),
                data_count |-> m.encoder.data_shards])

\* The loop of reconstruct over the given (block_index, data) pairs: the
\* shard array after the pairs blocks[i..], or an error at the first index
\* out of range.
RECURSIVE fill_shards(_, _, _, _)
fill_shards(total_shards, blocks, i, shards) ==
    IF i > Len(blocks) THEN Ok(shards)
    ELSE LET idx == blocks[i][1]
         IN IF idx >= total_shards THEN Err("Internal")
            ELSE fill_shards(total_shards, blocks, i + 1,
                             [shards EXCEPT ![idx] = Some(blocks[i][2])])

\* reconstruct placing the i-th given block in shard i, whatever its index
reconstruct_by_position(m, blocks) ==
    LET total_shards == m.encoder.total_shards
        placed == [i \in 1..Len(blocks) |-> <<i - 1, blocks[i][2]>>]
        filled == fill_shards(total_shards, placed, 1,
                              [b \in 0..total_shards-1 |-> None])
    IN IF ~filled.ok THEN filled ELSE decode(m.encoder, filled.v)

\* StripeManager::reconstruct
reconstruct(m, blocks) ==
    LET total_shards == m.encoder.total_shards
        filled == fill_shards(total_shards, blocks, 1,
                              [b \in 0..total_shards-1 |-> None])
    IN IF ~filled.ok THEN filled ELSE decode(m.encoder, filled.v)

\* Stripe::block_size
block_size(st) == IF DOMAIN st.blocks = {} THEN 0 ELSE Len(st.blocks[0])

\* message_ids.iter().cloned().collect::<HashMap<u8, i32>>(): of two pairs
\* with the same key the later one stays.
RECURSIVE message_id_map(_, _)
message_id_map(message_ids, key) ==
    IF message_ids = <<>> THEN None
    ELSE LET last == message_ids[Len(message_ids)]
         IN IF last[1] = key THEN Some(last[2])
            ELSE message_id_map(SubSeq(message_ids, 1, Len(message_ids) - 1), key)

\* to_stripe_info looking the message id up by account id
to_stripe_info_by_account(m, st, message_ids) ==
    LET total_shards == m.encoder.total_shards
        data_shards == m.encoder.data_shards
        parity_shards == total_shards - data_shards
    IN [blocks |-> [block_idx \in 0..total_shards-1 |->
                      LET message_id == message_id_map(message_ids, st.assignments[block_idx])
                      IN [account_id |-> st.assignments[block_idx],
                          message_id |-> message_id,
                          block_index |-> as_u8(block_idx),
                          uploaded_at |-> IF is_some(message_id) THEN Some("now") ELSE None]],
        data_count |-> as_u8(data_shards),
        parity_count |-> as_u8(parity_shards),
        block_size |-> block_size(st)]

\* StripeManager::to_stripe_info.  A Vec is a function on 0..len-1.
to_stripe_info(m, st, message_ids) ==
    LET total_shards == m.encoder.total_shards
        data_shards == m.encoder.data_shards
        parity_shards == total_shards - data_shards
    IN [blocks |-> [block_idx \in 0..total_shards-1 |->
                      LET message_id == message_id_map(message_ids, as_u8(block_idx))
                      IN [account_id |-> st.assignments[block_idx],
                          message_id |-> message_id,
                          block_index |-> as_u8(block_idx),
                          uploaded_at |-> IF is_some(message_id) THEN Some("now") ELSE None]],
        data_count |-> as_u8(data_shards),
        parity_count |-> as_u8(parity_shards),
        block_size |-> block_size(st)]

\* StripeInfo::available_blocks / can_reconstruct (chunk/mod.rs of the
\* repository, not among the sources): at least K blocks have a message id.
available_blocks(info) ==
    Cardinality({b \in DOMAIN info.blocks : is_some(info.blocks[b].message_id)})

can_reconstruct(info) == available_blocks(info) >= info.data_count

----------------------------------------------------------------------------
(* The StripeManager as a state machine: new, create_stripe, then one of   *)
(* its methods.  The manager is immutable (&self) and what a method        *)
(* returns depends on its arguments alone, so one call per behaviour       *)
(* covers every call.                                                      *)

ChunkIds == {"chunk"}

\* The message id the backend returned for block b (as in the tests)
MsgBase == 100

RECURSIVE SetToSeq(_)
SetToSeq(S) ==
    IF S = {} THEN <<>>
    ELSE LET m == CHOOSE m \in S : \A o \in S : m <= o
         IN <<m>> \o SetToSeq(S \ {m})

StripeIdle ==
    /\ sm = NoManager
    /\ stripe = NoStripe
    /\ input = NoCall
    /\ res = NoCall

New(data_shards, total_shards, num_accounts) ==
    /\ sm = NoManager
    /\ res = NoCall
    /\ LET r == StripeManager_new(data_shards, total_shards, num_accounts)
       IN /\ sm' = IF r.ok THEN r.v ELSE NoManager
          /\ res' = [op |-> "new", args |-> <<data_shards, total_shards, num_accounts>>,
                     ok |-> r.ok]
    /\ UNCHANGED <<stripe, input>>
    /\ UNCHANGED notStripe

GetAssignments(stripe_index) ==
    /\ sm # NoManager
    /\ res.op = "new"
    /\ res' = [op |-> "get_assignments", stripe_index |-> stripe_index,
               assignments |-> get_assignments(sm, stripe_index)]
    /\ UNCHANGED <<sm, stripe, input>>
    /\ UNCHANGED notStripe

CreateStripe(chunk_id, data, stripe_index) ==
    /\ sm # NoManager
    /\ res.op = "new"
    /\ LET r == create_stripe(sm, chunk_id, data, stripe_index)
       IN /\ stripe' = IF r.ok THEN r.v ELSE stripe
          /\ input' = IF r.ok THEN [op |-> "create_stripe", data |-> data,
                                    stripe_index |-> stripe_index]
                      ELSE input
          /\ res' = [op |-> "create_stripe", ok |-> r.ok]
    /\ UNCHANGED sm
    /\ UNCHANGED notStripe

\* reconstruct called with the blocks of the stripe whose index is in given;
\* the index total_shards names no block of the stripe.
Reconstruct ==
    /\ stripe # NoStripe
    /\ res.op = "create_stripe"
    /\ \E given \in SUBSET (0..sm.encoder.total_shards) :
         LET N == sm.encoder.total_shards
             idx == SetToSeq(given)
             blocks == [i \in 1..Len(idx) |->
                          <<idx[i], stripe.blocks[idx[i] % N]>>]
         IN res' = [op |-> "reconstruct", given |-> given,
                    result |-> reconstruct(sm, blocks)]
    /\ UNCHANGED <<sm, stripe, input>>
    /\ UNCHANGED notStripe

\* to_stripe_info called after the uploads of the blocks in uploaded succeeded
ToStripeInfo ==
    /\ stripe # NoStripe
    /\ res.op = "create_stripe"
    /\ \E uploaded \in SUBSET (0..sm.encoder.total_shards - 1) :
         LET idx == SetToSeq(uploaded)
             message_ids == [i \in 1..Len(idx) |-> <<idx[i], MsgBase + idx[i]>>]
         IN res' = [op |-> "to_stripe_info", uploaded |-> uploaded,
                    info |-> to_stripe_info(sm, stripe, message_ids)]
    /\ UNCHANGED <<sm, stripe, input>>
    /\ UNCHANGED notStripe

StripeNext ==
    \/ \E k \in 0..MaxShards, n \in 1..MaxShards, a \in 0..MaxAccounts : New(k, n, a)
    \/ \E i \in 0..MaxStripeIndex : GetAssignments(i)
    \/ \E c \in ChunkIds, d \in Plaintexts, i \in 0..MaxStripeIndex : CreateStripe(c, d, i)
    \/ Reconstruct
    \/ ToStripeInfo

NoPool == [state |-> "none"]

RebuildIdle ==
    /\ pool = NoPool
    /\ stripes = <<>>
    /\ remote = <<>>
    /\ health = <<>>
    /\ run = [pc |-> "none"]

\* Every part of the first sittings idle
EarlierIdle ==
    /\ StripeIdle /\ RebuildIdle
    /\ DedupIdle /\ ChunkerIdle /\ VersionIdle /\ LruIdle /\ HandleIdle

StripeInit ==
    /\ StripeIdle /\ RebuildIdle
    /\ DedupIdle /\ ChunkerIdle /\ VersionIdle /\ LruIdle /\ HandleIdle /\ LaterIdle

SpecStripe == StripeInit /\ [][StripeNext]_vars

----------------------------------------------------------------------------
(* Properties of the StripeManager (checked under SpecStripe) *)

\* C1: reconstruct, given the blocks of a stripe made by create_stripe whose
\* indices form any set of at least K of the N indices, returns exactly the
\* data create_stripe was given; given fewer than K blocks it returns an error.
C1_ReconstructAnyKofN ==
    (res.op = "reconstruct" /\ res.given \subseteq 0..sm.encoder.total_shards - 1) =>
        IF Cardinality(res.given) >= sm.encoder.data_shards
        THEN res.result = Ok(input.data)
        ELSE ~res.result.ok

\* C1 witness: exactly K blocks, a parity block among them and a data block
\* missing, decoded to a plaintext of two bytes
C1_Witness ==
    /\ res.op = "reconstruct"
    /\ Cardinality(res.given) = sm.encoder.data_shards
    /\ sm.encoder.data_shards >= 2
    /\ 0 \notin res.given
    /\ \E b \in res.given : b >= sm.encoder.data_shards
    /\ res.given \subseteq 0..sm.encoder.total_shards - 1
    /\ res.result.ok
    /\ Len(res.result.v) = 2

C3_AssignmentFormula ==
    res.op = "get_assignments" =>
        \A b \in DOMAIN res.assignments :
            res.assignments[b] = (b + res.stripe_index) % sm.num_accounts

\* C4: a StripeInfo built by to_stripe_info has exactly N block locations,
\* their block_index values are 0..N-1 in order, block i has a message id
\* exactly when i is among the successful uploads, and can_reconstruct is
\* true iff at least K blocks have a message id.
C4_StripeInfoShape ==
    res.op = "to_stripe_info" =>
        LET N == sm.encoder.total_shards
            K == sm.encoder.data_shards
            blocks == res.info.blocks
        IN /\ DOMAIN blocks = 0..N-1
           /\ \A i \in 0..N-1 : blocks[i].block_index = i
           /\ \A i \in 0..N-1 : is_some(blocks[i].message_id) <=> i \in res.uploaded
           /\ \A i \in res.uploaded : blocks[i].message_id = Some(MsgBase + i)
           /\ can_reconstruct(res.info) <=> Cardinality(res.uploaded) >= K

\* C4 witness: a partial upload of exactly K blocks of a rotated stripe, the
\* first block among the failed ones
C4_Witness ==
    /\ res.op = "to_stripe_info"
    /\ input.stripe_index % sm.encoder.total_shards # 0
    /\ Cardinality(res.uploaded) = sm.encoder.data_shards
    /\ 0 \notin res.uploaded
    /\ can_reconstruct(res.info)

----------------------------------------------------------------------------
(* The remote backends: per account the messages uploaded so far, the      *)
(* message id of a blob being its position.  A blob the account has lost   *)
(* is kept with present = FALSE.                                           *)

Accounts == 0..pool.account_count - 1

\* backend.download_chunk: fails when the call fails (the account is in
\* failing) or the account no longer holds the message
download_chunk(rem, account_id, message_id, failing) ==
    IF account_id \in failing THEN Err("RemoteTransient")
    ELSE IF message_id \notin DOMAIN rem[account_id] THEN Err("RemoteTransient")
    ELSE IF ~rem[account_id][message_id].present THEN Err("RemoteTransient")
    ELSE Ok(rem[account_id][message_id].data)

\* backend.upload_chunk(name, bytes) -> message id: the remote after it
upload_chunk(rem, account_id, name, data) ==
    [rem EXCEPT ![account_id] =
        Append(@, [name |-> name, data |-> data, present |-> TRUE])]

\* pool.get_backend: every account of the pool has a backend
get_backend(account_id) ==
    IF account_id \in Accounts THEN Some(account_id) ELSE None

----------------------------------------------------------------------------
(* raid/health.rs (not among the sources): per account a status and a      *)
(* counter of consecutive failures.                                        *)

NewHealth == [status |-> "Healthy", consecutive_failures |-> 0, rebuild_progress |-> None]

set_healthy(h, a) ==
    [h EXCEPT ![a] = [status |-> "Healthy", consecutive_failures |-> 0,
                      rebuild_progress |-> None]]

set_rebuilding(h, a) ==
    [h EXCEPT ![a].status = "Rebuilding", ![a].rebuild_progress = Some(<<0, 1>>)]

set_unavailable(h, a) == [h EXCEPT ![a].status = "Unavailable"]

\* the fraction processed / total is kept as the pair
update_rebuild_progress(h, a, processed, total) ==
    [h EXCEPT ![a].rebuild_progress = Some(<<processed, total>>)]

record_success(h, a) == [h EXCEPT ![a].consecutive_failures = 0]

record_failure(h, a) ==
    [h EXCEPT ![a].consecutive_failures = @ + 1,
              ![a].status = IF @ = "Healthy" THEN "Degraded" ELSE @]

account_status(h, a) == h[a].status

----------------------------------------------------------------------------
(* raid/rebuild.rs *)

\* RebuildManager::new: the stripe manager of the pool's configuration
stripe_manager ==
    StripeManager_new(pool.data_chunks, pool.total_chunks, pool.account_count).v

\* The elements v[i] of the Vec v (a function on 0..len-1) with keep[i], in order
filter(v, keep) ==
    LET idx == SetToSeq({i \in DOMAIN v : keep[i]})
    IN [k \in 1..Len(idx) |-> v[idx[k]]]

\* The download loop of rebuild_stripe_for_account over todo[i..]: an
\* Unavailable account is skipped, a failed download is recorded, and the
\* loop ends once data_chunks blocks are there.
RECURSIVE download_loop(_, _, _, _, _, _)
download_loop(todo, i, rem, failing, h, downloaded) ==
    IF i > Len(todo) THEN [ok |-> TRUE, health |-> h, downloaded |-> downloaded]
    ELSE LET block == todo[i]
         IN IF is_none(get_backend(block.account_id))
            THEN [ok |-> FALSE, err |-> "AccountUnavailable", health |-> h]
            ELSE IF account_status(h, block.account_id) = "Unavailable"
            THEN download_loop(todo, i + 1, rem, failing, h, downloaded)
            ELSE LET d == download_chunk(rem, block.account_id, block.message_id.v, failing)
                     h2 == IF d.ok THEN record_success(h, block.account_id)
                           ELSE record_failure(h, block.account_id)
                     got == IF d.ok THEN Append(downloaded, <<block.block_index, d.v>>)
                            ELSE downloaded
                 IN IF Len(got) >= pool.data_chunks
                    THEN [ok |-> TRUE, health |-> h2, downloaded |-> got]
                    ELSE download_loop(todo, i + 1, rem, failing, h2, got)

\* What rebuild_stripe_for_account hands back here: its result, the remote
\* and the health tracker after it, and the number of uploads it made
Outcome(result, rem, h, uploads) ==
    [result |-> result, remote |-> rem, health |-> h, uploads |-> uploads]

\* rebuild_stripe_for_account, "Upload the rebuilt block to the target
\* account".  The message id the upload returns is logged and dropped.
upload_rebuilt(reconstructed_stripe, target_block, chunk_id, target_account_id, rem, h, upload_fails) ==
    IF ~reconstructed_stripe.ok THEN Outcome(reconstructed_stripe, rem, h, 0)
    ELSE IF target_block.block_index \notin DOMAIN reconstructed_stripe.v.blocks
    THEN Outcome(Err("Internal"), rem, h, 0)
    ELSE IF is_none(get_backend(target_account_id))
    THEN Outcome(Err("AccountUnavailable"), rem, h, 0)
    ELSE IF upload_fails
    THEN Outcome(Err("RemoteTransient"), rem, record_failure(h, target_account_id), 1)
    ELSE Outcome(Ok("rebuilt"),
                 upload_chunk(rem, target_account_id,
                              <<chunk_id, target_block.block_index>>,
                              reconstructed_stripe.v.blocks[target_block.block_index]),
                 record_success(h, target_account_id), 1)

\* rebuild_stripe_for_account, "Re-create the stripe to get the missing block"
reencode(original_data, target_block, chunk_id, target_account_id, rem, h, upload_fails) ==
    IF ~original_data.ok THEN Outcome(original_data, rem, h, 0)
    ELSE upload_rebuilt(create_stripe(stripe_manager, chunk_id, original_data.v, 0),
                        target_block, chunk_id, target_account_id, rem, h, upload_fails)

\* rebuild_stripe_for_account after its download loop
after_downloads(dl, target_block, chunk_id, target_account_id, rem, upload_fails) ==
    IF ~dl.ok THEN Outcome(Err(dl.err), rem, dl.health, 0)
    ELSE IF Len(dl.downloaded) < pool.data_chunks
    THEN Outcome(Err("StripeUnrecoverable"), rem, dl.health, 0)
    ELSE reencode(reconstruct(stripe_manager, dl.downloaded),
                  target_block, chunk_id, target_account_id, rem, dl.health, upload_fails)

\* rebuild_stripe_for_account from "Download K blocks from other accounts"
rebuild_from_others(stripe_info, target_block, chunk_id, target_account_id, rem, h, failing, upload_fails) ==
    LET other(b) == b.account_id # target_account_id /\ is_some(b.message_id)
        other_blocks == filter(stripe_info.blocks,
                               [i \in DOMAIN stripe_info.blocks |-> other(stripe_info.blocks[i])])
    IN IF Len(other_blocks) < pool.data_chunks
       THEN Outcome(Err("StripeUnrecoverable"), rem, h, 0)
       ELSE after_downloads(
                download_loop(SubSeq(other_blocks, 1, pool.data_chunks), 1,
                              rem, failing, h, <<>>),
                target_block, chunk_id, target_account_id, rem, upload_fails)

\* RebuildManager::rebuild_stripe_for_account.  failing: the accounts whose
\* downloads fail during the call; upload_fails: whether the upload fails.
\* stripe_info is a shared reference: the call cannot change it.
rebuild_stripe_for_account(stripe_info, chunk_id, target_account_id, rem, h, failing, upload_fails) ==
    LET on_target(b) == b.account_id = target_account_id
        found == filter(stripe_info.blocks,
                        [i \in DOMAIN stripe_info.blocks |-> on_target(stripe_info.blocks[i])])
    IN IF found = <<>> THEN Outcome(Err("Internal"), rem, h, 0)
       ELSE IF /\ is_some(found[1].message_id)
               /\ is_some(get_backend(target_account_id))
               /\ download_chunk(rem, target_account_id,
                                 found[1].message_id.v, failing).ok
       THEN Outcome(Ok("skipped"), rem, h, 0)
       ELSE rebuild_from_others(stripe_info, found[1], chunk_id, target_account_id,
                                rem, h, failing, upload_fails)

\* RebuildProgress::new
RebuildProgress_new(account_id, total_stripes) ==
    [account_id |-> account_id, total_stripes |-> total_stripes,
     processed_stripes |-> 0, successful_stripes |-> 0, failed_stripes |-> 0,
     phase |-> "Starting"]

\* rebuild_account: the stripes (by position in the list) that have a block
\* on the account
affected_stripes(list, account_id) ==
    SetToSeq({i \in 1..Len(list) :
                \E b \in DOMAIN list[i].stripe.blocks :
                    list[i].stripe.blocks[b].account_id = account_id})

\* rebuild_account after its loop ("Final status"): the last callback, the
\* result and the health tracker
final_status(r, h) ==
    IF r.failed_stripes = <<>>
    THEN LET progress == [r.progress EXCEPT !.phase = "Completed"]
         IN [run |-> [r EXCEPT !.pc = "done", !.progress = progress,
                               !.callbacks = Append(@, progress),
                               !.result = Some(Ok("rebuilt"))],
             health |-> set_healthy(h, r.account_id),
             remote |-> <<>>]
    ELSE LET progress == [r.progress EXCEPT !.phase = "Failed"]
         IN [run |-> [r EXCEPT !.pc = "done", !.progress = progress,
                               !.callbacks = Append(@, progress),
                               !.result = Some(Err("RebuildFailed"))],
             health |-> h,
             remote |-> <<>>]

----------------------------------------------------------------------------
(* The pool as a state machine: stripes are written, an account may lose   *)
(* its messages or be marked Unavailable, then rebuild_account runs, one   *)
(* stripe per step (each stripe awaits its downloads and its upload).      *)

\* The configurations (K, N, accounts) of the pools
PoolConfigs == {<<1, 3, 4>>, <<2, 3, 3>>}

MaxStripes == 2    \* stripes written to the pool

\* The plaintext of the i-th chunk and its content-derived id
ChunkData(i) == <<i, 255>>
chunk_hash(data) == <<"blake3", data>>

\* While one stripe is handled no call fails, or the calls to one account do
FailSets == {{}} \cup {{a} : a \in Accounts}

\* The uploads of a stripe all succeed, or all but one do
UploadSets ==
    {u \in SUBSET (0..pool.total_chunks - 1) :
        /\ Cardinality(u) >= pool.data_chunks
        /\ Cardinality(u) >= pool.total_chunks - 1}

PoolInit ==
    /\ \E c \in PoolConfigs :
         pool = [data_chunks |-> c[1], total_chunks |-> c[2], account_count |-> c[3]]
    /\ stripes = <<>>
    /\ remote = [a \in Accounts |-> <<>>]
    /\ health = [a \in Accounts |-> NewHealth]
    /\ run = [pc |-> "idle", stage |-> 0]

\* The uploads of the blocks listed in todo[i..], and the message ids they returned
RECURSIVE upload_blocks(_, _, _, _, _)
upload_blocks(st, todo, i, rem, message_ids) ==
    IF i > Len(todo) THEN [remote |-> rem, message_ids |-> message_ids]
    ELSE LET b == todo[i]
             a == st.assignments[b]
             rem2 == upload_chunk(rem, a, <<st.chunk_id, b>>, st.blocks[b])
         IN upload_blocks(st, todo, i + 1, rem2,
                          Append(message_ids, <<b, Len(rem2[a])>>))

\* The write path (pool.upload_stripe, not among the sources): the chunk is
\* erasure coded, the blocks in uploaded reach their accounts, and the
\* StripeInfo is kept when at least K did.
WriteStripe ==
    /\ run.pc = "idle" /\ run.stage = 0
    /\ Len(stripes) < MaxStripes
    /\ \E uploaded \in UploadSets :
         LET data == ChunkData(Len(stripes) + 1)
             st == create_stripe(stripe_manager, chunk_hash(data), data, Len(stripes)).v
             up == upload_blocks(st, SetToSeq(uploaded), 1, remote, <<>>)
         IN /\ remote' = up.remote
            /\ stripes' = Append(stripes,
                   [id |-> st.chunk_id,
                    stripe |-> to_stripe_info(stripe_manager, st, up.message_ids)])
    /\ UNCHANGED <<pool, health, run>>
    /\ UNCHANGED notRebuild

\* An account loses every message it holds
LoseAccount(a) ==
    /\ run.pc = "idle" /\ run.stage = 0
    /\ remote[a] # <<>>
    /\ remote' = [remote EXCEPT ![a] = [i \in DOMAIN @ |-> [@[i] EXCEPT !.present = FALSE]]]
    /\ run' = [run EXCEPT !.stage = 1]
    /\ UNCHANGED <<pool, stripes, health>>
    /\ UNCHANGED notRebuild

\* An account is marked Unavailable
MarkUnavailable(a) ==
    /\ run.pc = "idle" /\ run.stage = 0
    /\ stripes # <<>>
    /\ health' = set_unavailable(health, a)
    /\ run' = [run EXCEPT !.stage = 1]
    /\ UNCHANGED <<pool, stripes, remote>>
    /\ UNCHANGED notRebuild

\* rebuild_account up to its loop; before: what the previous run left
start_rebuild(account_id, before) ==
    LET affected == affected_stripes(stripes, account_id)
        total_stripes == Len(affected)
        r == [pc |-> "processing", stage |-> 2,
              op |-> "rebuild", account_id |-> account_id,
              affected |-> affected, cursor |-> 1,
              progress |-> RebuildProgress_new(Some(account_id), total_stripes),
              failed_stripes |-> <<>>, result |-> None,
              callbacks |-> <<>>, attempted |-> <<>>, uploads |-> 0,
              last_call |-> None, faulty |-> FALSE, before |-> before]
    IN IF total_stripes = 0
       THEN /\ health' = set_healthy(health, account_id)
            /\ run' = [r EXCEPT !.pc = "done", !.result = Some(Ok("nothing"))]
       ELSE LET progress == [r.progress EXCEPT !.phase = "Processing"]
            IN /\ health' = set_rebuilding(health, account_id)
               /\ run' = [r EXCEPT !.progress = progress,
                                   !.callbacks = <<progress>>]

RebuildStart(account_id) ==
    /\ run.pc = "idle"
    /\ start_rebuild(account_id, None)
    /\ UNCHANGED <<pool, stripes, remote>>
    /\ UNCHANGED notRebuild

\* rebuild_account called once more for the account it has just rebuilt
RebuildAgain ==
    /\ run.pc = "done" /\ run.op = "rebuild"
    /\ is_none(run.before)
    /\ start_rebuild(run.account_id,
                     Some([stripes |-> stripes, remote |-> remote, health |-> health,
                           result |-> run.result.v, faulty |-> run.faulty]))
    /\ UNCHANGED <<pool, stripes, remote>>
    /\ UNCHANGED notRebuild

\* The blocks of the stripe on other accounts that a download would obtain:
\* they have a message id, their account is not Unavailable and the download
\* succeeds
obtainable_blocks(stripe_info, target_account_id, rem, h, failing) ==
    {b \in DOMAIN stripe_info.blocks :
        LET block == stripe_info.blocks[b]
        IN /\ block.account_id # target_account_id
           /\ is_some(block.message_id)
           /\ account_status(h, block.account_id) # "Unavailable"
           /\ download_chunk(rem, block.account_id, block.message_id.v, failing).ok}

\* A loop body that counts a stripe as processed only when it was rebuilt
count_stripe_rebuilt_only(rn, position, stripe_ref, failing, r) ==
    LET progress == IF r.result.ok
                    THEN [rn.progress EXCEPT !.successful_stripes = @ + 1,
                                             !.processed_stripes = @ + 1]
                    ELSE [rn.progress EXCEPT !.failed_stripes = @ + 1]
    IN [run |-> [rn EXCEPT
                   !.progress = progress,
                   !.failed_stripes = IF r.result.ok THEN @
                                      ELSE Append(@, <<stripe_ref.id, r.result.err>>),
                   !.callbacks = Append(@, progress),
                   !.attempted = Append(@, position),
                   !.uploads = @ + r.uploads,
                   !.last_call = Some([position |-> position, result |-> r.result,
                                       obtainable |-> Cardinality(obtainable_blocks(
                                           stripe_ref.stripe, rn.account_id,
                                           remote, health, failing))]),
                   !.faulty = @ \/ failing # {},
                   !.cursor = @ + 1],
        health |-> update_rebuild_progress(r.health, rn.account_id,
                       progress.processed_stripes, progress.total_stripes),
        remote |-> r.remote]

\* The loop body of rebuild_account after rebuild_stripe_for_account
\* returned r for the stripe stripe_ref: the counters, the health tracker's
\* progress and the callback
count_stripe(rn, position, stripe_ref, failing, r) ==
    LET counted == IF r.result.ok
                   THEN [rn.progress EXCEPT !.successful_stripes = @ + 1]
                   ELSE [rn.progress EXCEPT !.failed_stripes = @ + 1]
        progress == [counted EXCEPT !.processed_stripes = @ + 1]
    IN [run |-> [rn EXCEPT
                   !.progress = progress,
                   !.failed_stripes = IF r.result.ok THEN @
                                      ELSE Append(@, <<stripe_ref.id, r.result.err>>),
                   !.callbacks = Append(@, progress),
                   !.attempted = Append(@, position),
                   !.uploads = @ + r.uploads,
                   !.last_call = Some([position |-> position, result |-> r.result,
                                       obtainable |-> Cardinality(obtainable_blocks(
                                           stripe_ref.stripe, rn.account_id,
                                           remote, health, failing))]),
                   !.faulty = @ \/ failing # {},
                   !.cursor = @ + 1],
        health |-> update_rebuild_progress(r.health, rn.account_id,
                       progress.processed_stripes, progress.total_stripes),
        remote |-> r.remote]

\* The state after one turn: after the last stripe the final status follows
turn_done(c) ==
    IF c.run.cursor > Len(c.run.affected)
    THEN [final_status(c.run, c.health) EXCEPT !.remote = c.remote]
    ELSE c

Turn(c) ==
    /\ run' = c.run
    /\ health' = c.health
    /\ remote' = c.remote

\* One turn of the loop of rebuild_account (the batches of
\* affected_stripes.chunks(batch_size) are handled one after the other, so
\* the two loops are one loop over the affected stripes), and after the last
\* stripe the final status.
RebuildStep ==
    /\ run.pc = "processing" /\ run.op = "rebuild"
    /\ \E failing \in FailSets, upload_fails \in BOOLEAN :
         LET stripe_ref == stripes[run.affected[run.cursor]]
         IN Turn(turn_done(count_stripe(run, run.affected[run.cursor], stripe_ref, failing,
                rebuild_stripe_for_account(stripe_ref.stripe, stripe_ref.id,
                    run.account_id, remote, health, failing, upload_fails))))
    /\ UNCHANGED <<pool, stripes>>
    /\ UNCHANGED notRebuild

RebuildNext ==
    \/ WriteStripe
    \/ \E a \in Accounts : LoseAccount(a)
    \/ \E a \in Accounts : MarkUnavailable(a)
    \/ \E a \in Accounts : RebuildStart(a)
    \/ RebuildStep

RebuildInit ==
    /\ StripeIdle /\ PoolInit
    /\ DedupIdle /\ ChunkerIdle /\ VersionIdle /\ LruIdle /\ HandleIdle /\ LaterIdle

\* One run of rebuild_account
SpecRebuild == RebuildInit /\ [][RebuildNext]_vars

\* Two successive runs of rebuild_account for one account
RebuildTwiceNext ==
    \/ RebuildNext
    \/ RebuildAgain

SpecRebuildTwice == RebuildInit /\ [][RebuildTwiceNext]_vars

----------------------------------------------------------------------------
(* Properties of rebuild_account *)

\* rebuild_account has returned
RebuildDone == run.pc = "done" /\ run.op = "rebuild"

\* The blocks of the stripes that are placed on the account
blocks_on(list, account_id) ==
    {<<i, b>> \in (1..Len(list)) \X (0..pool.total_chunks - 1) :
        /\ b \in DOMAIN list[i].stripe.blocks
        /\ list[i].stripe.blocks[b].account_id = account_id}

\* C5: after rebuild_account(a) has completed without failures, every stripe
\* that places a block on account a has a message id recorded for that block.
C5_MessageIdRecorded ==
    (RebuildDone /\ run.result.v.ok) =>
        \A ib \in blocks_on(stripes, run.account_id) :
            is_some(stripes[ib[1]].stripe.blocks[ib[2]].message_id)

\* C6: when rebuild_account finishes with no failed stripe the target
\* account is Healthy, and when it finishes with a failed stripe the target
\* account is Degraded.
C6_FinalStatus ==
    RebuildDone =>
        /\ run.failed_stripes = <<>> => account_status(health, run.account_id) = "Healthy"
        /\ run.failed_stripes # <<>> => account_status(health, run.account_id) = "Degraded"

\* C7: a second rebuild_account(a) right after a first one that completed
\* without failures, no download failing in either, uploads nothing and
\* leaves the stripe metadata, the blobs of account a and the status of
\* account a as the first run left them.
C7_RebuildIdempotent ==
    (/\ RebuildDone /\ is_some(run.before)
     /\ run.before.v.result.ok /\ run.result.v.ok
     /\ ~run.before.v.faulty /\ ~run.faulty) =>
        /\ run.uploads = 0
        /\ stripes = run.before.v.stripes
        /\ remote[run.account_id] = run.before.v.remote[run.account_id]
        /\ account_status(health, run.account_id)
             = account_status(run.before.v.health, run.account_id)

\* C8: rebuilding one stripe returns StripeUnrecoverable only when fewer
\* than K blocks are obtainable from the other accounts.
C8_UnrecoverableOnlyBelowK ==
    (run.pc \in {"processing", "done"} /\ run.op = "rebuild" /\ is_some(run.last_call)) =>
        (run.last_call.v.result = Err("StripeUnrecoverable")
            => run.last_call.v.obtainable < pool.data_chunks)

\* C9: rebuild_account attempts every stripe that places a block on the
\* target account, whatever failed before; at every progress callback
\* processed = successful + failed, and when it returns that number is the
\* number of affected stripes.
C9_ProgressAccounting ==
    (run.pc \in {"processing", "done"} /\ run.op = "rebuild") =>
        /\ \A i \in DOMAIN run.callbacks :
             LET p == run.callbacks[i]
             IN p.processed_stripes = p.successful_stripes + p.failed_stripes
        /\ run.pc = "done" =>
             /\ run.progress.processed_stripes
                  = run.progress.successful_stripes + run.progress.failed_stripes
             /\ run.progress.processed_stripes = Len(run.affected)
             /\ run.progress.failed_stripes = Len(run.failed_stripes)
             /\ run.attempted = run.affected
             /\ {run.affected[i] : i \in DOMAIN run.affected}
                  = {ib[1] : ib \in blocks_on(stripes, run.account_id)}

\* a run whose first stripe failed and whose second stripe was rebuilt
C9_Witness ==
    /\ RebuildDone
    /\ Len(run.affected) = 2
    /\ Len(run.callbacks) = 4
    /\ run.callbacks[2].failed_stripes = 1
    /\ run.callbacks[3].successful_stripes = 1
    /\ run.uploads = 1

----------------------------------------------------------------------------
(* raid/rebuild.rs: scrub *)

\* scrub_stripe, "Try to download all blocks", over the blocks i, i+1, ...
RECURSIVE scrub_downloads(_, _, _, _, _, _, _, _)

\* A scrub that deletes the message whose download failed
scrub_downloaded_dropping(blocks, i, rem, failing, h, verified_blocks, missing_blocks, downloaded_blocks, d) ==
    IF d.ok
    THEN scrub_downloads(blocks, i + 1, rem, failing,
             record_success(h, blocks[i].account_id),
             verified_blocks + 1, missing_blocks,
             Append(downloaded_blocks, <<blocks[i].block_index, d.v>>))
    ELSE scrub_downloads(blocks, i + 1,
             [rem EXCEPT ![blocks[i].account_id] =
                 [m \in DOMAIN @ |-> IF m = blocks[i].message_id.v
                                     THEN [@[m] EXCEPT !.present = FALSE]
                                     ELSE @[m]]],
             failing,
             record_failure(h, blocks[i].account_id),
             verified_blocks, missing_blocks + 1, downloaded_blocks)

\* scrub_stripe, "match backend.download_chunk(..)" for the block i
scrub_downloaded(blocks, i, rem, failing, h, verified_blocks, missing_blocks, downloaded_blocks, d) ==
    IF d.ok
    THEN scrub_downloads(blocks, i + 1, rem, failing,
             record_success(h, blocks[i].account_id),
             verified_blocks + 1, missing_blocks,
             Append(downloaded_blocks, <<blocks[i].block_index, d.v>>))
    ELSE scrub_downloads(blocks, i + 1, rem, failing,
             record_failure(h, blocks[i].account_id),
             verified_blocks, missing_blocks + 1, downloaded_blocks)

scrub_downloads(blocks, i, rem, failing, h, verified_blocks, missing_blocks, downloaded_blocks) ==
    IF i \notin DOMAIN blocks
    THEN [health |-> h, remote |-> rem, verified_blocks |-> verified_blocks,
          missing_blocks |-> missing_blocks, downloaded_blocks |-> downloaded_blocks]
    ELSE LET block == blocks[i]
         IN IF \/ is_none(block.message_id)
               \/ is_none(get_backend(block.account_id))
               \/ account_status(h, block.account_id) = "Unavailable"
            THEN scrub_downloads(blocks, i + 1, rem, failing, h,
                                 verified_blocks, missing_blocks + 1, downloaded_blocks)
            ELSE scrub_downloaded(blocks, i, rem, failing, h,
                     verified_blocks, missing_blocks, downloaded_blocks,
                     download_chunk(rem, block.account_id, block.message_id.v, failing))

\* scrub_stripe, "Try to reconstruct data": the ScrubResult; decoded is what
\* reconstruct returned, which scrub_stripe drops
scrub_verdict(chunk_id, dl, decoded) ==
    [stripe_id |-> chunk_id,
     valid |-> decoded.ok,
     verified_blocks |-> dl.verified_blocks,
     missing_blocks |-> dl.missing_blocks,
     error |-> IF decoded.ok THEN None ELSE Some("Reconstruction failed"),
     decoded |-> Some(decoded)]

\* scrub_stripe after its downloads: the health tracker and the remote after
\* the calls it made, and its ScrubResult
scrub_check(chunk_id, dl) ==
    [health |-> dl.health,
     remote |-> dl.remote,
     result |-> IF Len(dl.downloaded_blocks) < pool.data_chunks
                THEN [stripe_id |-> chunk_id,
                      valid |-> FALSE,
                      verified_blocks |-> dl.verified_blocks,
                      missing_blocks |-> dl.missing_blocks,
                      error |-> Some("Not enough blocks to verify"),
                      decoded |-> None]
                ELSE scrub_verdict(chunk_id, dl,
                                   reconstruct(stripe_manager, dl.downloaded_blocks))]

\* RebuildManager::scrub_stripe
scrub_stripe(stripe_info, chunk_id, rem, h, failing) ==
    scrub_check(chunk_id,
                scrub_downloads(stripe_info.blocks, 0, rem, failing, h, 0, 0, <<>>))

\* RebuildManager::with_batch_size
with_batch_size(batch_size) == IF batch_size >= 1 THEN batch_size ELSE 1

ScrubConcurrency == 10

\* The batch sizes asked for: 0 (made 1 by with_batch_size) and 2
BatchSizes == {0, 2}

\* scrub, "for result in batch_results": the counters, the results and the
\* callbacks after batch_results[i..]
RECURSIVE count_results(_, _, _)
count_results(rn, batch_results, i) ==
    IF i > Len(batch_results) THEN rn
    ELSE LET result == batch_results[i]
             counted == IF result.valid
                        THEN [rn.progress EXCEPT !.successful_stripes = @ + 1]
                        ELSE [rn.progress EXCEPT !.failed_stripes = @ + 1]
             progress == [counted EXCEPT !.processed_stripes = @ + 1]
         IN count_results([rn EXCEPT !.progress = progress,
                                     !.results = Append(@, result),
                                     !.callbacks = Append(@, progress)],
                          batch_results, i + 1)

\* scrub after its loop: the phase and the last callback
scrub_finish(rn) ==
    LET progress == [rn.progress EXCEPT
                       !.phase = IF rn.progress.failed_stripes = 0
                                 THEN "Completed" ELSE "Failed"]
    IN [rn EXCEPT !.pc = "done", !.progress = progress,
                  !.callbacks = Append(@, progress)]

\* The positions of the stripes of the current batch of stripes.chunks(batch_size)
batch_of(rn) ==
    {p \in 1..Len(stripes) : rn.cursor <= p /\ p < rn.cursor + rn.batch_size}

\* buffer_unordered(batch_size.min(10)): the stripes of the batch whose
\* scrub_stripe is under way; they are started in order, at most
\* min(batch_size, 10) at a time
in_flight(rn) ==
    LET limit == IF rn.batch_size < ScrubConcurrency THEN rn.batch_size
                 ELSE ScrubConcurrency
        started == {p \in batch_of(rn) :
                       p - rn.cursor < Cardinality(rn.completed) + limit}
    IN started \ rn.completed

\* scrub once every stripe of the batch has its result: the results are
\* counted, then the next batch starts or scrub returns
batch_done(counted) ==
    LET next == [counted EXCEPT !.cursor = @ + counted.batch_size,
                                !.completed = {},
                                !.batch_results = <<>>]
    IN IF next.cursor > Len(stripes) THEN scrub_finish(next) ELSE next

\* A blob of the account changes in one byte
CorruptBlob(a) ==
    /\ run.pc = "idle" /\ run.stage = 0
    /\ \E i \in DOMAIN remote[a] :
         \E p \in DOMAIN remote[a][i].data :
            remote' = [remote EXCEPT ![a][i].data[p] = gf_add(@, 1)]
    /\ run' = [run EXCEPT !.stage = 1]
    /\ UNCHANGED <<pool, stripes, health>>
    /\ UNCHANGED notRebuild

\* scrub up to its loop, for a manager made by with_batch_size(batch_size)
ScrubStart(batch_size) ==
    /\ run.pc = "idle"
    /\ LET progress == [RebuildProgress_new(None, Len(stripes)) EXCEPT
                          !.phase = "Processing"]
           r == [pc |-> "processing", stage |-> 2, op |-> "scrub",
                 batch_size |-> with_batch_size(batch_size),
                 cursor |-> 1, completed |-> {}, batch_results |-> <<>>,
                 progress |-> progress, results |-> <<>>,
                 callbacks |-> <<progress>>]
       IN run' = IF stripes = <<>> THEN scrub_finish(r) ELSE r
    /\ UNCHANGED <<pool, stripes, remote, health>>
    /\ UNCHANGED notRebuild

\* A scrub that keeps the first result of each batch only
scrub_collect_first(rn) ==
    IF rn.completed = batch_of(rn)
    THEN batch_done(count_results(rn, <<rn.batch_results[1]>>, 1))
    ELSE rn

\* scrub after the scrub_stripe of one more stripe of the batch returned:
\* rn has its result, and with the last result of the batch the results are
\* counted
scrub_collect(rn) ==
    IF rn.completed = batch_of(rn)
    THEN batch_done(count_results(rn, rn.batch_results, 1))
    ELSE rn

ScrubTurn(p, r) ==
    /\ health' = r.health
    /\ remote' = r.remote
    /\ run' = scrub_collect([run EXCEPT !.completed = @ \cup {p},
                                        !.batch_results = Append(@, r.result)])

\* One scrub_stripe of the current batch completes (the stripes of a batch
\* complete in any order), and with the last one of the batch the results of
\* the batch are counted.
ScrubStep ==
    /\ run.pc = "processing" /\ run.op = "scrub"
    /\ \E p \in in_flight(run), failing \in FailSets :
         ScrubTurn(p, scrub_stripe(stripes[p].stripe, stripes[p].id,
                                   remote, health, failing))
    /\ UNCHANGED <<pool, stripes>>
    /\ UNCHANGED notRebuild

ScrubNext ==
    \/ WriteStripe
    \/ \E a \in Accounts : LoseAccount(a)
    \/ \E a \in Accounts : MarkUnavailable(a)
    \/ \E batch_size \in BatchSizes : ScrubStart(batch_size)
    \/ ScrubStep

\* scrub over stripes whose blobs are as they were written, or lost
SpecScrub == RebuildInit /\ [][ScrubNext]_vars

ScrubCorruptNext ==
    \/ ScrubNext
    \/ \E a \in Accounts : CorruptBlob(a)

\* scrub over stripes of which a blob may have changed
SpecScrubCorrupt == RebuildInit /\ [][ScrubCorruptNext]_vars

\* C10: scrub reports a stripe as valid only if the data decoded from its
\* blocks hashes to the stripe's chunk id.
C10_ValidOnlyIfHashAgrees ==
    (run.pc \in {"processing", "done"} /\ run.op = "scrub") =>
        \A i \in DOMAIN run.results :
            run.results[i].valid =>
                /\ is_some(run.results[i].decoded)
                /\ run.results[i].decoded.v.ok
                /\ chunk_hash(run.results[i].decoded.v.v) = run.results[i].stripe_id

\* scrub is under way or has returned
InScrub(r) == r.pc \in {"processing", "done"} /\ r.op = "scrub"

\* The accounts that hold a block with a message id of one of the stripes
accounts_read(list) ==
    {list[i].stripe.blocks[b].account_id :
        <<i, b>> \in {ib \in (1..Len(list)) \X (0..pool.total_chunks - 1) :
                        /\ ib[2] \in DOMAIN list[ib[1]].stripe.blocks
                        /\ is_some(list[ib[1]].stripe.blocks[ib[2]].message_id)}}

\* C11: no step of scrub, whatever downloads fail, changes the blobs of an
\* account (no upload, no delete) or a StripeInfo; of the health tracker it
\* changes nothing but the success / failure records of accounts it read.
C11_ScrubReadOnly ==
    [][InScrub(run') =>
         /\ remote' = remote
         /\ stripes' = stripes
         /\ pool' = pool
         /\ \A a \in Accounts :
              /\ health'[a].rebuild_progress = health[a].rebuild_progress
              /\ health'[a] # health[a] => a \in accounts_read(stripes)]_vars

\* a scrub of two stripes that has returned, with a download that failed on
\* a blob that is there
C11_Witness ==
    /\ InScrub(run) /\ run.pc = "done"
    /\ Len(run.results) = 2
    /\ \E a \in Accounts :
         /\ health[a].consecutive_failures > 0
         /\ \E m \in DOMAIN remote[a] : remote[a][m].present

----------------------------------------------------------------------------
(* chunk/chunker.rs: Chunk and DedupTracker *)

\* Chunk::new: the id of a chunk is the hash of its content
Chunk_new(data, offset) ==
    [info |-> [id |-> chunk_hash(data), size |-> Len(data), offset |-> offset,
               content_hash |-> chunk_hash(data)],
     data |-> data]

\* DedupTracker::is_known
is_known(known, chunk_id) == chunk_id \in known

\* DedupTracker::register
register(known, chunk_id) == known \cup {chunk_id}

\* A filter_new that registers the new chunks only once the loop is over
RECURSIVE filter_new_late(_, _, _, _, _)
filter_new_late(known, chunks, i, new_chunks, existing_ids) ==
    IF i > Len(chunks)
    THEN [known_chunks |-> known \cup {new_chunks[k].info.id : k \in DOMAIN new_chunks},
          new_chunks |-> new_chunks, existing_ids |-> existing_ids]
    ELSE IF is_known(known, chunks[i].info.id)
    THEN filter_new_late(known, chunks, i + 1, new_chunks,
                         Append(existing_ids, chunks[i].info.id))
    ELSE filter_new_late(known, chunks, i + 1,
                         Append(new_chunks, chunks[i]), existing_ids)

\* DedupTracker::filter_new from the chunk i on: the tracker after it and
\* the pair it returns
RECURSIVE filter_new(_, _, _, _, _)
filter_new(known, chunks, i, new_chunks, existing_ids) ==
    IF i > Len(chunks)
    THEN [known_chunks |-> known,
          new_chunks |-> new_chunks, existing_ids |-> existing_ids]
    ELSE IF is_known(known, chunks[i].info.id)
    THEN filter_new(known, chunks, i + 1, new_chunks,
                    Append(existing_ids, chunks[i].info.id))
    ELSE filter_new(register(known, chunks[i].info.id), chunks, i + 1,
                    Append(new_chunks, chunks[i]), existing_ids)

MaxBatchLen == 2     \* chunks handed to one filter_new
MaxDedupCalls == 3   \* calls made on one tracker

\* The plaintexts of the chunks
DedupData == {<<0>>, <<1>>}

\* The batches: chunk k of a batch is at offset k - 1
DedupBatches ==
    {[k \in 1..Len(d) |-> Chunk_new(d[k], k - 1)] : d \in SeqsUpTo(DedupData, MaxBatchLen)}

FilterNew(chunks) ==
    /\ Len(dedupLog) < MaxDedupCalls
    /\ LET r == filter_new(known_chunks, chunks, 1, <<>>, <<>>)
       IN /\ known_chunks' = r.known_chunks
          /\ dedupLog' = Append(dedupLog,
                 [op |-> "filter_new", chunks |-> chunks,
                  new_chunks |-> r.new_chunks, existing_ids |-> r.existing_ids])
    /\ UNCHANGED notDedup

Register(chunk_id) ==
    /\ Len(dedupLog) < MaxDedupCalls
    /\ known_chunks' = register(known_chunks, chunk_id)
    /\ dedupLog' = Append(dedupLog, [op |-> "register", chunk_id |-> chunk_id])
    /\ UNCHANGED notDedup

DedupNext ==
    \/ \E chunks \in DedupBatches : FilterNew(chunks)
    \/ \E d \in DedupData : Register(chunk_hash(d))

\* DedupTracker::new
DedupInit ==
    /\ StripeIdle /\ RebuildIdle
    /\ DedupIdle /\ ChunkerIdle /\ VersionIdle /\ LruIdle /\ HandleIdle /\ LaterIdle

SpecDedup == DedupInit /\ [][DedupNext]_vars

\* The ids the call k of the log made known: registered, or returned as new
ids_of_call(k) ==
    IF dedupLog[k].op = "register" THEN {dedupLog[k].chunk_id}
    ELSE {dedupLog[k].new_chunks[j].info.id : j \in DOMAIN dedupLog[k].new_chunks}

\* The chunks of the call k that are new: their id was not made known by an
\* earlier call and is not the id of an earlier chunk of the batch
new_indices(k) ==
    {i \in DOMAIN dedupLog[k].chunks :
        /\ \A e \in 1..(k - 1) : dedupLog[k].chunks[i].info.id \notin ids_of_call(e)
        /\ \A j \in 1..(i - 1) :
             dedupLog[k].chunks[j].info.id # dedupLog[k].chunks[i].info.id}

\* C12: every chunk given to filter_new lands in exactly one of new_chunks
\* and existing_ids (the new ones are those not known before and not earlier
\* in the batch), and no chunk id is returned in new_chunks twice or after
\* it was registered.
C12_DedupOnce ==
    /\ \A k \in DOMAIN dedupLog :
         dedupLog[k].op = "filter_new" =>
            LET c == dedupLog[k].chunks
                new == SetToSeq(new_indices(k))
                old == SetToSeq(DOMAIN c \ new_indices(k))
            IN /\ dedupLog[k].new_chunks = [j \in 1..Len(new) |-> c[new[j]]]
               /\ dedupLog[k].existing_ids = [j \in 1..Len(old) |-> c[old[j]].info.id]
               /\ \A j1, j2 \in DOMAIN dedupLog[k].new_chunks :
                    j1 # j2 => dedupLog[k].new_chunks[j1].info.id
                                 # dedupLog[k].new_chunks[j2].info.id
    /\ \A k1, k2 \in DOMAIN dedupLog :
         (k1 < k2 /\ dedupLog[k2].op = "filter_new")
            => ids_of_call(k1) \cap ids_of_call(k2) = {}

\* a batch with the same plaintext twice, then the plaintext again in a
\* second batch, after the other plaintext was registered
C12_Witness ==
    /\ Len(dedupLog) = 3
    /\ dedupLog[1].op = "filter_new"
    /\ Len(dedupLog[1].new_chunks) = 1 /\ Len(dedupLog[1].existing_ids) = 1
    /\ dedupLog[2].op = "register"
    /\ dedupLog[3].op = "filter_new"
    /\ dedupLog[3].new_chunks = <<>> /\ Len(dedupLog[3].existing_ids) = 2
    /\ Cardinality(known_chunks) = 2

----------------------------------------------------------------------------
(* chunk/chunker.rs: Chunker *)

MaxChunkSize == 3   \* chunk sizes 0..MaxChunkSize
MaxFileLen == 4     \* length of the data handed to chunk_data

\* A chunk_data that numbers the chunks instead of counting the bytes
RECURSIVE chunks_numbered(_, _, _, _)
chunks_numbered(chunk_size, data, offset, chunks) ==
    IF data = <<>> THEN chunks
    ELSE LET n == IF Len(data) < chunk_size THEN Len(data) ELSE chunk_size
         IN chunks_numbered(chunk_size, SubSeq(data, n + 1, Len(data)), offset + 1,
                            Append(chunks, Chunk_new(SubSeq(data, 1, n), offset)))

\* The loop of chunk_data over data.chunks(chunk_size), chunk_size > 0:
\* the chunks after the rest of the data, which starts at offset
RECURSIVE chunks_from(_, _, _, _)
chunks_from(chunk_size, data, offset, chunks) ==
    IF data = <<>> THEN chunks
    ELSE LET n == IF Len(data) < chunk_size THEN Len(data) ELSE chunk_size
         IN chunks_from(chunk_size, SubSeq(data, n + 1, Len(data)), offset + n,
                        Append(chunks, Chunk_new(SubSeq(data, 1, n), offset)))

\* Chunker::chunk_data; slice::chunks panics when the chunk size is 0
chunk_data(chunk_size, data) ==
    IF chunk_size = 0 THEN [panic |-> TRUE]
    ELSE [panic |-> FALSE, chunks |-> chunks_from(chunk_size, data, 0, <<>>)]

\* sort_by_key(|c| c.info.offset), a stable sort: c goes behind the chunks
\* of sorted whose offset is not greater
RECURSIVE insert_by_offset(_, _)
insert_by_offset(sorted, c) ==
    IF sorted = <<>> THEN <<c>>
    ELSE IF sorted[Len(sorted)].info.offset <= c.info.offset THEN Append(sorted, c)
    ELSE Append(insert_by_offset(SubSeq(sorted, 1, Len(sorted) - 1), c),
                sorted[Len(sorted)])

RECURSIVE sort_by_offset(_, _, _)
sort_by_offset(chunks, i, sorted) ==
    IF i > Len(chunks) THEN sorted
    ELSE sort_by_offset(chunks, i + 1, insert_by_offset(sorted, chunks[i]))

\* result.extend_from_slice(&chunk.data) for the chunks i, i+1, ...
RECURSIVE extend_from(_, _, _)
extend_from(chunks, i, result) ==
    IF i > Len(chunks) THEN result
    ELSE extend_from(chunks, i + 1, result \o chunks[i].data)

\* A reassemble that takes the chunks as they come
reassemble_as_given(chunks) == extend_from(chunks, 1, <<>>)

\* Chunker::reassemble
reassemble(chunks) == extend_from(sort_by_offset(chunks, 1, <<>>), 1, <<>>)

ChunkerChunkData(chunk_size, data) ==
    /\ chunker.op = "none"
    /\ chunker' = [op |-> "chunk_data", chunk_size |-> chunk_size, data |-> data,
                   returned |-> chunk_data(chunk_size, data)]
    /\ UNCHANGED notChunker

\* reassemble, given the chunks that chunk_data returned in the order perm
ChunkerReassemble ==
    /\ chunker.op = "chunk_data"
    /\ ~chunker.returned.panic
    /\ \E perm \in Permutations(DOMAIN chunker.returned.chunks) :
         LET given == [k \in DOMAIN perm |-> chunker.returned.chunks[perm[k]]]
         IN chunker' = [op |-> "reassemble", chunk_size |-> chunker.chunk_size,
                        data |-> chunker.data, given |-> given,
                        returned |-> reassemble(given)]
    /\ UNCHANGED notChunker

ChunkerNext ==
    \/ \E chunk_size \in 0..MaxChunkSize, data \in SeqsUpTo(Bytes, MaxFileLen) :
         ChunkerChunkData(chunk_size, data)
    \/ ChunkerReassemble

ChunkerInit ==
    /\ StripeIdle /\ RebuildIdle
    /\ DedupIdle /\ ChunkerIdle /\ VersionIdle /\ LruIdle /\ HandleIdle /\ LaterIdle

SpecChunker == ChunkerInit /\ [][ChunkerNext]_vars

\* C13: for chunk size c > 0 and n bytes, chunk_data yields ceil(n / c)
\* chunks at the offsets 0, c, 2c, ...; every chunk but the last has c bytes
\* and the last has 1..c bytes (so no chunk for n = 0, one for n = c, and
\* two for n = c + 1, the second of one byte).
C13_ChunkShape ==
    (chunker.op = "chunk_data" /\ chunker.chunk_size > 0) =>
        LET c == chunker.chunk_size
            n == Len(chunker.data)
            chunks == chunker.returned.chunks
        IN /\ ~chunker.returned.panic
           /\ Len(chunks) = CeilDiv(n, c)
           /\ \A k \in DOMAIN chunks :
                /\ chunks[k].info.offset = (k - 1) * c
                /\ chunks[k].info.size = Len(chunks[k].data)
                /\ k < Len(chunks) => Len(chunks[k].data) = c
                /\ k = Len(chunks) => Len(chunks[k].data) \in 1..c
                /\ chunks[k].data = SubSeq(chunker.data, (k - 1) * c + 1,
                                           (k - 1) * c + Len(chunks[k].data))
           /\ n = 0 => chunks = <<>>
           /\ n = c => Len(chunks) = 1
           /\ n = c + 1 => Len(chunks) = 2 /\ Len(chunks[2].data) = 1

\* c + 1 bytes for a chunk size c > 1: two chunks, the second of one byte
C13_Witness ==
    /\ chunker.op = "chunk_data"
    /\ chunker.chunk_size = 2
    /\ Len(chunker.data) = 3
    /\ Len(chunker.returned.chunks) = 2
    /\ chunker.returned.chunks[2].info.offset = 2

\* C14: reassemble of the chunks of chunk_data(x), given in any order,
\* returns x.
C14_ReassembleAnyOrder ==
    chunker.op = "reassemble" => chunker.returned = chunker.data

\* three chunks given last first, the bytes not all the same
C14_Witness ==
    /\ chunker.op = "reassemble"
    /\ Len(chunker.given) = 3
    /\ chunker.given[1].info.offset > chunker.given[2].info.offset
    /\ chunker.given[2].info.offset > chunker.given[3].info.offset
    /\ chunker.data[1] # chunker.data[Len(chunker.data)]
    /\ chunker.returned = chunker.data

----------------------------------------------------------------------------
(* metadata/version.rs: VersionManager *)

\* FileVersion::new (the creation time is left out)
FileVersion_new(version, manifest, comment) ==
    [version |-> version, size |-> manifest.total_size,
     manifest |-> manifest, comment |-> comment]

\* An add_version that, over the cap, drops the newest versions
add_version_keep_oldest(vs, max, ino, manifest, comment) ==
    LET old == IF ino \in DOMAIN vs THEN vs[ino] ELSE <<>>
        next_version == IF old = <<>> THEN 1 ELSE old[Len(old)].version + 1
        pushed == Append(old, FileVersion_new(next_version, manifest, comment))
        kept == IF max > 0 /\ Len(pushed) > max THEN SubSeq(pushed, 1, max) ELSE pushed
        evicted == IF max > 0 /\ Len(pushed) > max
                   THEN SubSeq(pushed, max + 1, Len(pushed)) ELSE <<>>
    IN [versions |-> [i \in DOMAIN vs \cup {ino} |-> IF i = ino THEN kept ELSE vs[i]],
        returned |-> next_version, evicted |-> evicted]

\* VersionManager::add_version: the map after it, the number it returns and
\* the versions it drained
add_version(vs, max, ino, manifest, comment) ==
    LET old == IF ino \in DOMAIN vs THEN vs[ino] ELSE <<>>
        next_version == IF old = <<>> THEN 1 ELSE old[Len(old)].version + 1
        pushed == Append(old, FileVersion_new(next_version, manifest, comment))
        to_remove == IF max > 0 /\ Len(pushed) > max THEN Len(pushed) - max ELSE 0
    IN [versions |-> [i \in DOMAIN vs \cup {ino} |->
                         IF i = ino THEN SubSeq(pushed, to_remove + 1, Len(pushed))
                         ELSE vs[i]],
        returned |-> next_version,
        evicted |-> SubSeq(pushed, 1, to_remove)]

\* VersionManager::delete_versions
delete_versions(vs, ino) == [i \in DOMAIN vs \ {ino} |-> vs[i]]

\* The ids of the chunks of a manifest
manifest_ids(manifest) == {manifest.chunks[k].id : k \in DOMAIN manifest.chunks}

\* VersionManager::get_orphaned_chunks; the Vec it returns comes out of a
\* HashSet, in no particular order: it is kept as a set
get_orphaned_chunks(vs, ino, current_manifest) ==
    LET current_chunks == manifest_ids(current_manifest)
        all_chunks == IF ino \in DOMAIN vs
                      THEN UNION {manifest_ids(vs[ino][k].manifest) : k \in DOMAIN vs[ino]}
                      ELSE {}
    IN all_chunks \ current_chunks

MaxVersionCalls == 3   \* add_version and delete_versions calls on one manager

Inodes == {1, 2}

\* The caps a manager is made with (0: no cap)
VersionCaps == {0, 1, 2}

\* The manifests: one chunk, or two, out of two chunks
Manifests ==
    {[version |-> 1, total_size |-> Len(ids),
      chunks |-> [k \in DOMAIN ids |-> [id |-> ids[k], offset |-> k - 1]],
      file_hash |-> "test"] : ids \in {<<"c1">>, <<"c2">>, <<"c1", "c2">>}}

NoQuery == [op |-> "none"]

\* VersionManager::new(max_versions)
VersionManagerNew ==
    /\ versions = <<>>
    /\ max_versions \in VersionCaps
    /\ versionLog = [calls |-> <<>>, query |-> NoQuery]

AddVersion(ino, manifest) ==
    /\ Len(versionLog.calls) < MaxVersionCalls
    /\ LET r == add_version(versions, max_versions, ino, manifest, None)
       IN /\ versions' = r.versions
          /\ versionLog' = [calls |-> Append(versionLog.calls,
                                [op |-> "add_version", ino |-> ino, manifest |-> manifest,
                                 returned |-> r.returned, evicted |-> r.evicted]),
                            query |-> NoQuery]
    /\ UNCHANGED max_versions
    /\ UNCHANGED notVersion

DeleteVersions(ino) ==
    /\ Len(versionLog.calls) < MaxVersionCalls
    /\ versions' = delete_versions(versions, ino)
    /\ versionLog' = [calls |-> Append(versionLog.calls,
                                       [op |-> "delete_versions", ino |-> ino]),
                      query |-> NoQuery]
    /\ UNCHANGED max_versions
    /\ UNCHANGED notVersion

GetOrphanedChunks(ino, current_manifest) ==
    /\ versionLog.query = NoQuery
    /\ versionLog' = [versionLog EXCEPT !.query =
           [op |-> "get_orphaned_chunks", ino |-> ino,
            current_manifest |-> current_manifest,
            returned |-> get_orphaned_chunks(versions, ino, current_manifest)]]
    /\ UNCHANGED <<versions, max_versions>>
    /\ UNCHANGED notVersion

VersionNext ==
    \/ \E ino \in Inodes, manifest \in Manifests : AddVersion(ino, manifest)
    \/ \E ino \in Inodes : DeleteVersions(ino)
    \/ \E ino \in Inodes, manifest \in Manifests : GetOrphanedChunks(ino, manifest)

VersionInit ==
    /\ StripeIdle /\ RebuildIdle
    /\ DedupIdle /\ ChunkerIdle /\ VersionManagerNew /\ LruIdle /\ HandleIdle /\ LaterIdle

SpecVersion == VersionInit /\ [][VersionNext]_vars

\* The add_version calls of the log for the inode, in order
adds_of(ino) ==
    SelectSeq(versionLog.calls, LAMBDA c : c.op = "add_version" /\ c.ino = ino)

\* The add_version calls for the inode since its versions were last deleted
RECURSIVE adds_since_delete(_, _)
adds_since_delete(ino, k) ==
    IF k = 0 THEN <<>>
    ELSE LET c == versionLog.calls[k]
         IN IF c.ino # ino THEN adds_since_delete(ino, k - 1)
            ELSE IF c.op = "delete_versions" THEN <<>>
            ELSE Append(adds_since_delete(ino, k - 1), c)

\* C15: every number add_version returns for an inode is greater than every
\* number it returned for that inode before.
C15_VersionMonotonic ==
    \A ino \in Inodes :
        \A i, j \in DOMAIN adds_of(ino) :
            i < j => adds_of(ino)[i].returned < adds_of(ino)[j].returned

\* C16: with a cap max_versions > 0 an inode retains at most max_versions
\* versions, the most recently added ones in ascending order; without a cap
\* it retains every version added.
C16_RetainNewest ==
    \A ino \in DOMAIN versions :
        LET added == adds_since_delete(ino, Len(versionLog.calls))
            n == Len(versions[ino])
        IN /\ max_versions > 0 => n <= max_versions
           /\ max_versions > 0 /\ Len(added) >= max_versions => n = max_versions
           /\ max_versions = 0 => n = Len(added)
           /\ n <= Len(added)
           /\ \A k \in 1..n :
                /\ versions[ino][k].version = added[Len(added) - n + k].returned
                /\ versions[ino][k].manifest = added[Len(added) - n + k].manifest
           /\ \A k \in 1..(n - 1) : versions[ino][k].version < versions[ino][k + 1].version

\* a cap of 2 and three versions added to one inode: versions 2 and 3 stay
C16_Witness ==
    /\ max_versions = 2
    /\ 1 \in DOMAIN versions
    /\ Len(adds_of(1)) = 3
    /\ Len(versions[1]) = 2
    /\ versions[1][1].version = 2 /\ versions[1][2].version = 3
    /\ versions[1][1].manifest # versions[1][2].manifest

\* The chunk ids of the versions of the inode that add_version evicted
evicted_ids(ino) ==
    UNION {manifest_ids(adds_of(ino)[i].evicted[k].manifest) :
              <<i, k>> \in {ik \in (DOMAIN adds_of(ino)) \X (1..MaxVersionCalls) :
                              ik[2] \in DOMAIN adds_of(ino)[ik[1]].evicted}}

\* The chunk ids of the versions the inode retains
retained_ids(ino) ==
    IF ino \in DOMAIN versions
    THEN UNION {manifest_ids(versions[ino][k].manifest) : k \in DOMAIN versions[ino]}
    ELSE {}

\* C17: once add_version has evicted versions of an inode,
\* get_orphaned_chunks returns the chunk ids of evicted versions that no
\* retained version and not the current manifest refers to.
C17_OrphansOfEvicted ==
    (/\ versionLog.query.op = "get_orphaned_chunks"
     /\ evicted_ids(versionLog.query.ino) # {}) =>
        versionLog.query.returned =
            (evicted_ids(versionLog.query.ino) \ retained_ids(versionLog.query.ino))
                \ manifest_ids(versionLog.query.current_manifest)

----------------------------------------------------------------------------
(* cache/lru.rs: LruCache *)

\* LruCache::new
LruCache_new == [order |-> <<>>, positions |-> <<>>, generation |-> 0]

\* HashMap::insert on positions
positions_insert(pos, key, gen) ==
    [k \in DOMAIN pos \cup {key} |-> IF k = key THEN gen ELSE pos[k]]

\* HashMap::remove on positions
positions_remove(pos, key) == [k \in DOMAIN pos \ {key} |-> pos[k]]

\* LruCache::insert
lru_insert(c, key) ==
    [order |-> Append(c.order, key),
     positions |-> positions_insert(c.positions, key, c.generation + 1),
     generation |-> c.generation + 1]

\* LruCache::touch
lru_touch(c, key) ==
    IF key \in DOMAIN c.positions
    THEN [order |-> Append(c.order, key),
          positions |-> positions_insert(c.positions, key, c.generation + 1),
          generation |-> c.generation + 1]
    ELSE c

\* LruCache::remove: the entries of the key stay in order
lru_remove(c, key) == [c EXCEPT !.positions = positions_remove(c.positions, key)]

\* LruCache::clear
lru_clear(c) == LruCache_new

\* The is_newest test of pop_oldest, over the entries left in order
is_newest(rest, pos, key, gen) ==
    \A i \in DOMAIN rest :
        rest[i] # key \/ (IF rest[i] \in DOMAIN pos THEN pos[rest[i]] <= gen ELSE TRUE)

\* A pop_oldest that hands out the front entry without looking at positions
pop_oldest_unchecked(c, skipped) ==
    IF c.order = <<>> THEN [cache |-> c, returned |-> None, skipped |-> skipped]
    ELSE [cache |-> [c EXCEPT !.order = Tail(c.order),
                              !.positions = positions_remove(c.positions, Head(c.order))],
          returned |-> Some(Head(c.order)), skipped |-> skipped]

\* LruCache::pop_oldest: the cache after it, what it returns and the entries
\* it dropped on the way
RECURSIVE pop_oldest(_, _)
pop_oldest(c, skipped) ==
    IF c.order = <<>> THEN [cache |-> c, returned |-> None, skipped |-> skipped]
    ELSE LET key == Head(c.order)
             rest == Tail(c.order)
         IN IF key \in DOMAIN c.positions
               /\ is_newest(rest, c.positions, key, c.positions[key])
            THEN [cache |-> [c EXCEPT !.order = rest,
                                      !.positions = positions_remove(c.positions, key)],
                  returned |-> Some(key), skipped |-> skipped]
            ELSE pop_oldest([c EXCEPT !.order = rest], Append(skipped, key))

MaxLruCalls == 4   \* calls on one cache

Keys == {"a", "b", "c"}

\* The cache as one record
lru_cache == [order |-> order, positions |-> positions, generation |-> generation]

\* The log of a new cache: the number of calls made, for each key the call
\* that last inserted or touched it, how often it was popped since its last
\* insert, whether it was removed since, and the last pop_oldest
LruLogNew ==
    [calls |-> 0,
     last_use |-> [k \in Keys |-> 0],
     popped |-> [k \in Keys |-> 0],
     removed |-> [k \in Keys |-> FALSE],
     pop |-> [op |-> "none"]]

LruNew ==
    /\ order = <<>> /\ positions = <<>> /\ generation = 0
    /\ lruLog = LruLogNew

\* The cache of the next state
lru_set(c) ==
    /\ order' = c.order
    /\ positions' = c.positions
    /\ generation' = c.generation

LruInsert(key) ==
    /\ lruLog.calls < MaxLruCalls
    /\ lru_set(lru_insert(lru_cache, key))
    /\ lruLog' = [lruLog EXCEPT !.calls = @ + 1,
                                !.last_use[key] = lruLog.calls + 1,
                                !.popped[key] = 0,
                                !.removed[key] = FALSE,
                                !.pop = [op |-> "none"]]
    /\ UNCHANGED notLru

LruTouch(key) ==
    /\ lruLog.calls < MaxLruCalls
    /\ lru_set(lru_touch(lru_cache, key))
    /\ lruLog' = [lruLog EXCEPT !.calls = @ + 1,
                                !.last_use[key] = IF key \in DOMAIN positions
                                                  THEN lruLog.calls + 1 ELSE @,
                                !.pop = [op |-> "none"]]
    /\ UNCHANGED notLru

LruRemove(key) ==
    /\ lruLog.calls < MaxLruCalls
    /\ lru_set(lru_remove(lru_cache, key))
    /\ lruLog' = [lruLog EXCEPT !.calls = @ + 1,
                                !.removed[key] = TRUE,
                                !.pop = [op |-> "none"]]
    /\ UNCHANGED notLru

\* The tracked keys whose last insert or touch is the earliest
least_recently_used ==
    {k \in DOMAIN positions :
        \A j \in DOMAIN positions : lruLog.last_use[k] <= lruLog.last_use[j]}

LruPopOldest ==
    /\ lruLog.calls < MaxLruCalls
    /\ LET r == pop_oldest(lru_cache, <<>>)
       IN /\ lru_set(r.cache)
          /\ lruLog' = [lruLog EXCEPT
                 !.calls = @ + 1,
                 !.popped = [k \in Keys |-> IF r.returned = Some(k) THEN @[k] + 1 ELSE @[k]],
                 !.pop = [op |-> "pop_oldest", returned |-> r.returned,
                          skipped |-> r.skipped,
                          tracked |-> DOMAIN positions,
                          oldest |-> least_recently_used,
                          removed |-> lruLog.removed,
                          popped |-> lruLog.popped]]
    /\ UNCHANGED notLru

LruClear ==
    /\ lruLog.calls < MaxLruCalls
    /\ lru_set(lru_clear(lru_cache))
    /\ lruLog' = [lruLog EXCEPT !.calls = @ + 1, !.pop = [op |-> "none"]]
    /\ UNCHANGED notLru

LruNext ==
    \/ \E key \in Keys : LruInsert(key)
    \/ \E key \in Keys : LruTouch(key)
    \/ \E key \in Keys : LruRemove(key)
    \/ LruPopOldest
    \/ LruClear

LruInit ==
    /\ StripeIdle /\ RebuildIdle
    /\ DedupIdle /\ ChunkerIdle /\ VersionIdle /\ LruNew /\ HandleIdle /\ LaterIdle

SpecLru == LruInit /\ [][LruNext]_vars

\* C18: pop_oldest returns the tracked key whose most recent insert or touch
\* is the earliest, and nothing when no key is tracked.
C18_PopLeastRecentlyUsed ==
    lruLog.pop.op = "pop_oldest" =>
        IF lruLog.pop.tracked = {}
        THEN lruLog.pop.returned = None
        ELSE /\ lruLog.pop.returned.some
             /\ lruLog.pop.returned.v \in lruLog.pop.oldest

\* C19: between two inserts of a key pop_oldest returns the key at most once,
\* and it never returns a key that was removed and not inserted again.
C19_EvictedAtMostOnce ==
    /\ \A k \in Keys : lruLog.popped[k] <= 1
    /\ (lruLog.pop.op = "pop_oldest" /\ lruLog.pop.returned.some) =>
           ~lruLog.pop.removed[lruLog.pop.returned.v]

\* a key inserted, touched and popped; the next pop_oldest meets the entry
\* the touch left behind and drops it
C19_Witness ==
    /\ lruLog.pop.op = "pop_oldest"
    /\ \E k \in Keys :
          /\ lruLog.pop.popped[k] = 1
          /\ \E i \in DOMAIN lruLog.pop.skipped : lruLog.pop.skipped[i] = k
          /\ lruLog.pop.returned # Some(k)

----------------------------------------------------------------------------
(* fs/handle.rs: HandleManager; fs/overlay/handle.rs: OverlayHandleManager *)

MaxOpens == 3   \* opens begun on one manager

Managers == {"HandleManager", "OverlayHandleManager"}

Threads == {"t1", "t2"}

\* A fetch_add that reads the counter and does not advance it
fetch_add_load_only(n) == [value |-> n, next |-> n]

\* AtomicU64::fetch_add(1, SeqCst): one step, gives the value before it
fetch_add(n) == [value |-> n, next |-> n + 1]

\* FileHandle::new / OverlayFileHandle::new
FileHandle_new(ino, flags) == [ino |-> ino, flags |-> flags]

\* handles.write().insert(fh, handle)
handles_insert(hs, fh, handle) ==
    [k \in DOMAIN hs \cup {fh} |-> IF k = fh THEN handle ELSE hs[k]]

\* handles.write().remove(&fh)
handles_remove(hs, fh) == [k \in DOMAIN hs \ {fh} |-> hs[k]]

CallerIdle == [pc |-> "idle"]

\* HandleManager::new and OverlayHandleManager::new, no thread inside a call
HandleNew ==
    /\ next_id = [m \in Managers |-> 1]
    /\ handles = [m \in Managers |-> <<>>]
    /\ callers = [t \in Threads |-> CallerIdle]
    /\ handleLog = [m \in Managers |-> <<>>]

\* open, first step: the id is taken from the counter
OpenAlloc(t, m, ino) ==
    /\ callers[t] = CallerIdle
    /\ next_id[m] <= MaxOpens
    /\ LET r == fetch_add(next_id[m])
       IN /\ next_id' = [next_id EXCEPT ![m] = r.next]
          /\ callers' = [callers EXCEPT ![t] =
                 [pc |-> "insert", mgr |-> m, fh |-> r.value,
                  handle |-> FileHandle_new(ino, 0)]]
    /\ UNCHANGED <<handles, handleLog>>
    /\ UNCHANGED notHandle

\* open, second step: the handle is put into the map under the write lock
\* and the id is returned
OpenInsert(t) ==
    /\ callers[t].pc = "insert"
    /\ LET m == callers[t].mgr
       IN /\ handles' = [handles EXCEPT ![m] =
                 handles_insert(@, callers[t].fh, callers[t].handle)]
          /\ handleLog' = [handleLog EXCEPT ![m] = Append(@, callers[t].fh)]
    /\ callers' = [callers EXCEPT ![t] = CallerIdle]
    /\ UNCHANGED next_id
    /\ UNCHANGED notHandle

\* close: one step under the write lock
HandleClose(t, m, fh) ==
    /\ callers[t] = CallerIdle
    /\ fh \in DOMAIN handles[m]
    /\ handles' = [handles EXCEPT ![m] = handles_remove(@, fh)]
    /\ UNCHANGED <<next_id, callers, handleLog>>
    /\ UNCHANGED notHandle

HandleNext ==
    \/ \E t \in Threads, m \in Managers, ino \in Inodes : OpenAlloc(t, m, ino)
    \/ \E t \in Threads : OpenInsert(t)
    \/ \E t \in Threads, m \in Managers, fh \in 1..(MaxOpens + 1) : HandleClose(t, m, fh)

HandleInit ==
    /\ StripeIdle /\ RebuildIdle
    /\ DedupIdle /\ ChunkerIdle /\ VersionIdle /\ LruIdle /\ HandleNew /\ LaterIdle

SpecHandle == HandleInit /\ [][HandleNext]_vars

\* The threads inside an open of the manager
opening(m) == {t \in Threads : callers[t].pc = "insert" /\ callers[t].mgr = m}

\* C20: an open of a manager never gets an id the manager has given out
\* before, whether that handle is open, closed, or being opened by another
\* thread.
C20_HandleIdsUnique ==
    \A m \in Managers :
        /\ \A i, j \in DOMAIN handleLog[m] : i # j => handleLog[m][i] # handleLog[m][j]
        /\ \A t \in opening(m) :
              /\ \A i \in DOMAIN handleLog[m] : handleLog[m][i] # callers[t].fh
              /\ \A u \in opening(m) \ {t} : callers[u].fh # callers[t].fh
        /\ \A fh \in DOMAIN handles[m] : \E i \in DOMAIN handleLog[m] : handleLog[m][i] = fh

\* on both managers: handle 1 closed, and two opens that overlapped, the one
\* that took its id second returning first
C20_Witness ==
    \A m \in Managers :
        /\ handleLog[m] = <<1, 3, 2>>
        /\ DOMAIN handles[m] = {2, 3}

----------------------------------------------------------------------------
(* fs/handle.rs: FileHandle::write on one handle shared by the threads *)

MaxWrites == 3   \* write calls on the handle since the buffer was last cleared

\* What the callers write
WriteData == {<<1, 2>>, <<3>>}

WriterIdle == [pc |-> "idle"]

\* FileHandle::new: the buffer behind its RwLock, nobody holding the lock
FileHandleNew ==
    /\ write_buffer = [lock |-> "free", data |-> <<>>]
    /\ dirty = FALSE
    /\ writers = [t \in Threads |-> WriterIdle]
    /\ writeLog = [issued |-> [t \in Threads |-> <<>>], locked |-> <<>>]

\* A lock that lets every caller in
write_lock_open(wb) == TRUE

\* RwLock::write: the lock is given when nobody holds it
write_lock_free(wb) == wb.lock = "free"

\* write is called: the caller waits for the buffer's lock
WriteCall(t, data) ==
    /\ writers[t] = WriterIdle
    /\ Len(writeLog.locked) + Cardinality({u \in Threads : writers[u].pc = "waiting"})
          < MaxWrites
    /\ writers' = [writers EXCEPT ![t] = [pc |-> "waiting", data |-> data]]
    /\ writeLog' = [writeLog EXCEPT !.issued[t] = Append(@, data)]
    /\ UNCHANGED <<write_buffer, dirty>>
    /\ UNCHANGED notWrite

\* write_buffer.write(): the caller gets the lock
WriteLock(t) ==
    /\ writers[t].pc = "waiting"
    /\ write_lock_free(write_buffer)
    /\ write_buffer' = [write_buffer EXCEPT !.lock = t]
    /\ writers' = [writers EXCEPT ![t] = [pc |-> "copying", data |-> @.data, copied |-> 0]]
    /\ writeLog' = [writeLog EXCEPT !.locked = Append(@, [thread |-> t, data |-> writers[t].data])]
    /\ UNCHANGED dirty
    /\ UNCHANGED notWrite

\* extend_from_slice under the lock: one byte goes into the buffer; after the
\* last byte the guard is dropped
WriteCopy(t) ==
    /\ writers[t].pc = "copying"
    /\ LET w == writers[t]
           last == w.copied + 1 = Len(w.data)
       IN /\ write_buffer' = [lock |-> IF last THEN "free" ELSE write_buffer.lock,
                              data |-> Append(write_buffer.data, w.data[w.copied + 1])]
          /\ writers' = [writers EXCEPT ![t] =
                 IF last THEN [pc |-> "marking"] ELSE [w EXCEPT !.copied = @ + 1]]
    /\ UNCHANGED <<dirty, writeLog>>
    /\ UNCHANGED notWrite

\* mark_dirty, then write returns
WriteMarkDirty(t) ==
    /\ writers[t].pc = "marking"
    /\ dirty' = TRUE
    /\ writers' = [writers EXCEPT ![t] = WriterIdle]
    /\ UNCHANGED <<write_buffer, writeLog>>
    /\ UNCHANGED notWrite

\* clear_write_buffer and clear_dirty by a caller, with no write in progress
ClearWriteBuffer(t) ==
    /\ \A u \in Threads : writers[u] = WriterIdle
    /\ write_lock_free(write_buffer)
    /\ write_buffer.data # <<>>
    /\ write_buffer' = [write_buffer EXCEPT !.data = <<>>]
    /\ dirty' = FALSE
    /\ writeLog' = [issued |-> [u \in Threads |-> <<>>], locked |-> <<>>]
    /\ UNCHANGED writers
    /\ UNCHANGED notWrite

WriteNext ==
    \/ \E t \in Threads, data \in WriteData : WriteCall(t, data)
    \/ \E t \in Threads : WriteLock(t)
    \/ \E t \in Threads : WriteCopy(t)
    \/ \E t \in Threads : WriteMarkDirty(t)
    \/ \E t \in Threads : ClearWriteBuffer(t)

WriteInit == EarlierIdle /\ FileHandleNew /\ ClientIdle /\ BackoffIdle /\ LimiterIdle /\ MigrationIdle /\ InodeIdle /\ ConfigIdle /\ LastIdle

SpecWrite == WriteInit /\ [][WriteNext]_vars

\* The bytes of the first n writes of the lock order, one after the other
RECURSIVE whole_writes(_)
whole_writes(n) ==
    IF n = 0 THEN <<>> ELSE whole_writes(n - 1) \o writeLog.locked[n].data

\* The writes of the lock order whose bytes are all in the buffer
writes_done ==
    LET n == Len(writeLog.locked)
    IN IF n > 0 /\ writers[writeLog.locked[n].thread].pc = "copying" THEN n - 1 ELSE n

\* The bytes the write that holds the lock has copied so far
write_in_progress ==
    LET n == Len(writeLog.locked)
    IN IF writes_done = n THEN <<>>
       ELSE SubSeq(writeLog.locked[n].data, 1, writers[writeLog.locked[n].thread].copied)

\* The writes a thread got the lock for, in lock order
locked_by(t) ==
    LET mine == SelectSeq(writeLog.locked, LAMBDA e : e.thread = t)
    IN [i \in DOMAIN mine |-> mine[i].data]

\* C21: the write buffer is the whole writes in the order they took the lock
\* (followed by the bytes copied so far of the write holding the lock), and
\* the writes of one caller are in it in the order the caller issued them.
C21_WritesSerialized ==
    /\ write_buffer.data = whole_writes(writes_done) \o write_in_progress
    /\ \A t \in Threads :
          LET n == Len(locked_by(t))
          IN /\ n <= Len(writeLog.issued[t])
             /\ locked_by(t) = SubSeq(writeLog.issued[t], 1, n)

\* both threads wrote, three writes in all, and every byte of them is in the
\* buffer
C21_Witness ==
    /\ Len(writeLog.locked) = 3
    /\ writeLog.locked[1].thread # writeLog.locked[2].thread
    /\ writeLog.locked[1].data = <<1, 2>>
    /\ \A t \in Threads : writers[t] = WriterIdle
    /\ write_buffer.data = whole_writes(3)
    /\ dirty

----------------------------------------------------------------------------
(* telegram/rate_limit.rs: ExponentialBackoff *)

(* Natural numbers of any size, for the u64 and Duration arithmetic: the
   digits to the base 10000, least significant first, zero being <<>> *)
RECURSIVE big_of(_)
big_of(n) == IF n = 0 THEN <<>> ELSE <<n % 10000>> \o big_of(n \div 10000)

RECURSIVE big_add(_, _, _)
big_add(a, b, carry) ==
    IF a = <<>> /\ b = <<>> THEN big_of(carry)
    ELSE LET x == IF a = <<>> THEN 0 ELSE Head(a)
             y == IF b = <<>> THEN 0 ELSE Head(b)
             sum == x + y + carry
         IN <<sum % 10000>> \o big_add(IF a = <<>> THEN a ELSE Tail(a),
                                       IF b = <<>> THEN b ELSE Tail(b), sum \div 10000)

RECURSIVE big_mul_digit(_, _, _)
big_mul_digit(a, d, carry) ==
    IF d = 0 THEN <<>>
    ELSE IF a = <<>> THEN big_of(carry)
    ELSE LET prod == Head(a) * d + carry
         IN <<prod % 10000>> \o big_mul_digit(Tail(a), d, prod \div 10000)

big_shift(a) == IF a = <<>> THEN a ELSE <<0>> \o a

RECURSIVE big_mul(_, _)
big_mul(a, b) ==
    IF a = <<>> \/ b = <<>> THEN <<>>
    ELSE big_add(big_mul_digit(a, Head(b), 0), big_shift(big_mul(a, Tail(b))), 0)

RECURSIVE big_less(_, _)
big_less(a, b) ==
    IF Len(a) # Len(b) THEN Len(a) < Len(b)
    ELSE IF a = <<>> THEN FALSE
    ELSE IF a[Len(a)] # b[Len(b)] THEN a[Len(a)] < b[Len(b)]
    ELSE big_less(SubSeq(a, 1, Len(a) - 1), SubSeq(b, 1, Len(b) - 1))

big_min(a, b) == IF big_less(b, a) THEN b ELSE a

RECURSIVE big_pow2(_)
big_pow2(i) == IF i = 0 THEN <<1>> ELSE big_add(big_pow2(i - 1), big_pow2(i - 1), 0)

\* u64::MAX, 2^64 - 1
U64Max == <<1615, 955, 737, 6744, 1844>>

\* u32::MAX, 2^32 - 1
U32Max == <<7295, 9496, 42>>

\* A Duration is kept as its whole milliseconds; its seconds are a u64, so
\* it holds less than 2^64 * 1000 milliseconds
DurationLimitMs == <<6000, 5161, 7095, 4073, 4674, 184>>

Panic == [panic |-> TRUE]

\* Duration::from_millis
from_millis(ms) == ms

\* Duration::from_secs(60)
from_secs_60 == big_of(60000)

\* 2u32.saturating_pow(exp)
saturating_pow2(exp) == IF exp >= 32 THEN U32Max ELSE big_pow2(exp)

\* Duration * u32: it panics when the product does not fit
duration_mul(d, rhs) ==
    LET product == big_mul(d, rhs)
    IN IF big_less(product, DurationLimitMs) THEN Ok(product) ELSE Panic

\* ExponentialBackoff::new
ExponentialBackoff_new(base_delay_ms, max_attempts) ==
    [base_delay |-> from_millis(base_delay_ms), max_delay |-> from_secs_60,
     max_attempts |-> max_attempts, current_attempt |-> 0]

\* ExponentialBackoff::next_delay: the backoff after it and what it returns
next_delay(b) ==
    IF b.current_attempt >= b.max_attempts
    THEN [backoff |-> b, returned |-> None]
    ELSE LET delay == duration_mul(b.base_delay, saturating_pow2(b.current_attempt))
         IN IF delay = Panic
            THEN [backoff |-> b, returned |-> Panic]
            ELSE [backoff |-> [b EXCEPT !.current_attempt = @ + 1],
                  returned |-> Some(big_min(delay.v, b.max_delay))]

\* ExponentialBackoff::reset
backoff_reset(b) == [b EXCEPT !.current_attempt = 0]

\* ExponentialBackoff::has_attempts
has_attempts(b) == b.current_attempt < b.max_attempts

MaxAttempts == 11   \* max_attempts of the backoff under test

MaxResets == 1   \* reset calls on it

\* The base delays in milliseconds: none, the one of the tests, one whose
\* doubling passes 60 s, and the largest u64
BaseDelays == {<<>>, big_of(100), big_of(40000), U64Max}

BackoffNew ==
    /\ \E base_delay_ms \in BaseDelays, max_attempts \in 0..MaxAttempts :
          backoff = ExponentialBackoff_new(base_delay_ms, max_attempts)
    /\ backoffLog = [since_reset |-> 0, resets |-> 0, last |-> [op |-> "none"]]

\* The thread that called next_delay is gone after a panic
BackoffAlive == backoffLog.last.op = "next_delay" => backoffLog.last.returned # Panic

BackoffNextDelay ==
    /\ BackoffAlive
    /\ backoffLog.since_reset <= backoff.max_attempts
    /\ LET r == next_delay(backoff)
       IN /\ backoff' = r.backoff
          /\ backoffLog' = [backoffLog EXCEPT
                 !.since_reset = @ + 1,
                 !.last = [op |-> "next_delay", i |-> backoffLog.since_reset,
                           returned |-> r.returned]]
    /\ UNCHANGED notBackoff

BackoffReset ==
    /\ BackoffAlive
    /\ backoffLog.resets < MaxResets
    /\ backoff' = backoff_reset(backoff)
    /\ backoffLog' = [since_reset |-> 0, resets |-> backoffLog.resets + 1,
                      last |-> [op |-> "reset"]]
    /\ UNCHANGED notBackoff

BackoffHasAttempts ==
    /\ BackoffAlive
    /\ backoffLog.last.op # "has_attempts"
    /\ backoffLog' = [backoffLog EXCEPT
           !.last = [op |-> "has_attempts", i |-> backoffLog.since_reset,
                     returned |-> has_attempts(backoff)]]
    /\ UNCHANGED backoff
    /\ UNCHANGED notBackoff

BackoffNext ==
    \/ BackoffNextDelay
    \/ BackoffReset
    \/ BackoffHasAttempts

BackoffInit == EarlierIdle /\ WriteIdle /\ ClientIdle /\ BackoffNew /\ LimiterIdle /\ MigrationIdle /\ InodeIdle /\ ConfigIdle /\ LastIdle

SpecBackoff == BackoffInit /\ [][BackoffNext]_vars

\* C24: the i-th next_delay since new or reset (i from 0) returns
\* min(base_delay * 2^i, 60 s) when i < max_attempts and None otherwise;
\* has_attempts tells whether the next next_delay returns a delay.
C24_BackoffSequence ==
    /\ backoffLog.last.op = "next_delay" =>
          backoffLog.last.returned =
              IF backoffLog.last.i < backoff.max_attempts
              THEN Some(big_min(big_mul(backoff.base_delay, big_pow2(backoffLog.last.i)),
                                from_secs_60))
              ELSE None
    /\ backoffLog.last.op = "has_attempts" =>
          backoffLog.last.returned = (backoffLog.last.i < backoff.max_attempts)

----------------------------------------------------------------------------
(* telegram/client.rs: TelegramBackend::upload_chunk, download_chunk,
   upload_metadata. A string is kept as the sequence of its pieces. *)

\* telegram/mod.rs
CHUNK_FILE_PREFIX == <<"tgfs_chunk_">>
METADATA_FILE_PREFIX == <<"tgfs_meta_">>

\* format!("{}{}", a, b)
format2(a, b) == a \o b

\* str::starts_with
starts_with(str, prefix) ==
    Len(str) >= Len(prefix) /\ SubSeq(str, 1, Len(prefix)) = prefix

\* The errors an attempt can fail with: the two classes of remote errors, and
\* the one the do_upload / do_download of this repository return
ErrorKinds == {"RemoteTransient", "RemoteFatal", "NotImplemented"}

\* TelegramConfig: retry_attempts and retry_base_delay_ms (the defaults, no
\* retry, and the largest delay with many retries)
ClientConfigs ==
    {[retry_attempts |-> 3, retry_base_delay_ms |-> big_of(1000)],
     [retry_attempts |-> 0, retry_base_delay_ms |-> big_of(1000)],
     [retry_attempts |-> 11, retry_base_delay_ms |-> U64Max]}

\* How many attempts the Telegram side lets fail before one succeeds
FailureCounts == {0, 1, 2, 12}

\* The names and ids the calls are made with
ChunkNames == {<<"c1">>, <<"root">>}
StoredData == <<1, 2>>

CallIdle == [pc |-> "idle"]

\* TelegramBackend::new and connect (or not); one blob is stored already
ClientNew ==
    /\ \E connected \in BOOLEAN, cfg \in ClientConfigs,
          failures \in FailureCounts, error \in ErrorKinds :
          tg = [connected |-> connected, config |-> cfg,
                failures |-> failures, error |-> error,
                blobs |-> <<[id |-> 7, filename |-> <<"tgfs_chunk_", "c0">>,
                             data |-> StoredData, op |-> "none", arg |-> <<>>]>>]
    /\ call = CallIdle
    /\ callLog = [attempts |-> <<>>, sleeps |-> <<>>]

\* upload_chunk up to its loop: the permit is taken, the connection tested,
\* the file named and the backoff made
upload_chunk_begin(op, arg, chunk_id, data) ==
    IF ~tg.connected
    THEN [pc |-> "done", op |-> op, arg |-> arg, result |-> Err("Not connected")]
    ELSE [pc |-> "attempt", op |-> op, arg |-> arg, kind |-> "upload",
          filename |-> format2(CHUNK_FILE_PREFIX, chunk_id), data |-> data,
          backoff |-> ExponentialBackoff_new(tg.config.retry_base_delay_ms,
                                             tg.config.retry_attempts)]

UploadChunk(chunk_id, data) ==
    /\ call = CallIdle
    /\ call' = upload_chunk_begin("upload_chunk", chunk_id, chunk_id, data)
    /\ UNCHANGED <<tg, callLog>>
    /\ UNCHANGED notClient

\* upload_metadata: it names the file and hands the name to upload_chunk
UploadMetadata(name, data) ==
    /\ call = CallIdle
    /\ LET filename == format2(METADATA_FILE_PREFIX, name)
       IN call' = upload_chunk_begin("upload_metadata", name, filename, data)
    /\ UNCHANGED <<tg, callLog>>
    /\ UNCHANGED notClient

DownloadChunk(message_id) ==
    /\ call = CallIdle
    /\ call' = IF ~tg.connected
               THEN [pc |-> "done", op |-> "download_chunk", arg |-> message_id,
                     result |-> Err("Not connected")]
               ELSE [pc |-> "attempt", op |-> "download_chunk", arg |-> message_id,
                     kind |-> "download", message_id |-> message_id,
                     backoff |-> ExponentialBackoff_new(tg.config.retry_base_delay_ms,
                                                        tg.config.retry_attempts)]
    /\ UNCHANGED <<tg, callLog>>
    /\ UNCHANGED notClient

\* What the Telegram side answers to the attempt after n earlier ones
do_attempt(c, n) ==
    IF n < tg.failures THEN Err(tg.error)
    ELSE IF c.kind = "upload" THEN Ok(8)
    ELSE Ok(StoredData)

\* The Err arm of the loop of upload_chunk / download_chunk
after_failure(c, e) ==
    LET r == next_delay(c.backoff)
    IN IF r.returned = Panic THEN [c EXCEPT !.pc = "done"] @@ [result |-> Panic]
       ELSE IF r.returned = None THEN [c EXCEPT !.pc = "done"] @@ [result |-> e]
       ELSE [c EXCEPT !.pc = "sleeping", !.backoff = r.backoff] @@ [delay |-> r.returned.v]

\* One turn of the loop: an attempt, and what the match makes of its result
Attempt ==
    /\ call.pc = "attempt"
    /\ LET r == do_attempt(call, Len(callLog.attempts))
       IN /\ callLog' = [callLog EXCEPT !.attempts = Append(@, r)]
          /\ IF r.ok
             THEN /\ call' = [call EXCEPT !.pc = "done"] @@ [result |-> r]
                  /\ tg' = IF call.kind = "upload"
                           THEN [tg EXCEPT !.blobs = Append(@,
                                    [id |-> r.v, filename |-> call.filename,
                                     data |-> call.data, op |-> call.op, arg |-> call.arg])]
                           ELSE tg
             ELSE /\ call' = after_failure(call, r)
                  /\ tg' = tg
    /\ UNCHANGED notClient

\* tokio::time::sleep(delay) is over
SleepDone ==
    /\ call.pc = "sleeping"
    /\ callLog' = [callLog EXCEPT !.sleeps = Append(@, call.delay)]
    /\ call' = [pc |-> "attempt", op |-> call.op, arg |-> call.arg, kind |-> call.kind,
                backoff |-> call.backoff] @@
               (IF call.kind = "upload"
                THEN [filename |-> call.filename, data |-> call.data]
                ELSE [message_id |-> call.message_id])
    /\ UNCHANGED tg
    /\ UNCHANGED notClient

ClientNext ==
    \/ \E chunk_id \in ChunkNames : UploadChunk(chunk_id, StoredData)
    \/ \E name \in ChunkNames : UploadMetadata(name, StoredData)
    \/ DownloadChunk(7)
    \/ Attempt
    \/ SleepDone

ClientInit == EarlierIdle /\ WriteIdle /\ ClientNew /\ BackoffIdle /\ LimiterIdle /\ MigrationIdle /\ InodeIdle /\ ConfigIdle /\ LastIdle

SpecClient == ClientInit /\ [][ClientNext]_vars

\* The delay slept after the i-th failed attempt (i from 1)
backoff_delay(i) ==
    big_min(big_mul(from_millis(tg.config.retry_base_delay_ms), big_pow2(i - 1)),
            from_secs_60)

\* C22: a call on a connected backend ends; if all its attempts failed there
\* were retry_attempts + 1 of them with the backoff delays slept in between
\* and the last error is returned; if one succeeded it was the last and its
\* result is returned.
C22_RetryAccounting ==
    (call.pc = "done" /\ tg.connected) =>
        LET n == Len(callLog.attempts)
        IN /\ call.result # Panic
           /\ n >= 1
           /\ call.result = callLog.attempts[n]
           /\ \A i \in 1..(n - 1) : ~callLog.attempts[i].ok
           /\ ~callLog.attempts[n].ok => n = tg.config.retry_attempts + 1
           /\ Len(callLog.sleeps) = n - 1
           /\ \A i \in 1..(n - 1) : callLog.sleeps[i] = backoff_delay(i)

\* C23: no attempt is made after an attempt that failed with a fatal error.
C23_FatalNotRetried ==
    \A i \in DOMAIN callLog.attempts :
        (~callLog.attempts[i].ok /\ callLog.attempts[i].err = "RemoteFatal") =>
            /\ i = Len(callLog.attempts)
            /\ call.pc = "done"

\* C28: a blob uploaded by upload_chunk(id, ..) is named tgfs_chunk_<id>, one
\* uploaded by upload_metadata(name, ..) is named tgfs_meta_<name> and does
\* not begin with tgfs_chunk_.
C28_BlobNames ==
    \A i \in DOMAIN tg.blobs :
        LET blob == tg.blobs[i]
        IN /\ blob.op = "upload_chunk" =>
                 blob.filename = format2(CHUNK_FILE_PREFIX, blob.arg)
           /\ blob.op = "upload_metadata" =>
                 /\ blob.filename = format2(METADATA_FILE_PREFIX, blob.arg)
                 /\ ~starts_with(blob.filename, CHUNK_FILE_PREFIX)

----------------------------------------------------------------------------
(* telegram/rate_limit.rs: RateLimiter. Time is counted in ticks; min_delay
   is min_delay_us in ticks. *)

MaxTime == 4     \* the clock stops here
MaxGrants == 3   \* acquire calls issued on the limiter

Tasks == {"a", "b", "c"}

\* RateLimiter::new(max_concurrent, ..) with the delay it computes
LimiterConfigs ==
    {[max_concurrent |-> 1, min_delay |-> 0],
     [max_concurrent |-> 2, min_delay |-> 0],
     [max_concurrent |-> 2, min_delay |-> 2]}

TaskIdle == [pc |-> "idle"]

\* RateLimiter::new: last_op is the instant of the construction
RateLimiterNew ==
    /\ \E cfg \in LimiterConfigs :
          limiter = [max_concurrent |-> cfg.max_concurrent, permits |-> cfg.max_concurrent,
                     min_delay |-> cfg.min_delay, last_op |-> 0]
    /\ tasks = [t \in Tasks |-> TaskIdle]
    /\ now = 0
    /\ limiterLog = [issued |-> 0, grants |-> <<>>]

\* A semaphore that gives a permit whether or not one is left
permit_always(l) == TRUE

\* Semaphore::acquire completes when a permit is left
permit_available(l) == l.permits > 0

\* acquire is called
AcquireCall(t) ==
    /\ tasks[t] = TaskIdle
    /\ limiterLog.issued < MaxGrants
    /\ tasks' = [tasks EXCEPT ![t] = [pc |-> "waiting"]]
    /\ limiterLog' = [limiterLog EXCEPT !.issued = @ + 1]
    /\ UNCHANGED <<limiter, now>>
    /\ UNCHANGED notLimiter

\* self.concurrency.acquire().await
AcquirePermit(t) ==
    /\ tasks[t].pc = "waiting"
    /\ permit_available(limiter)
    /\ limiter' = [limiter EXCEPT !.permits = @ - 1]
    /\ tasks' = [tasks EXCEPT ![t] = [pc |-> "permit"]]
    /\ UNCHANGED <<now, limiterLog>>
    /\ UNCHANGED notLimiter

\* acquire returns the guard
granted(t) ==
    /\ tasks' = [tasks EXCEPT ![t] = [pc |-> "granted"]]
    /\ limiterLog' = [limiterLog EXCEPT !.grants = Append(@, [task |-> t, at |-> now])]

\* The minimum delay: under the lock of last_op the task either finds the
\* delay elapsed and stamps last_op, or works out how long to wait and lets
\* go of the lock
EnforceDelay(t) ==
    /\ tasks[t].pc = "permit"
    /\ IF limiter.min_delay = 0
       THEN granted(t) /\ UNCHANGED limiter
       ELSE LET elapsed == now - limiter.last_op
            IN IF elapsed < limiter.min_delay
               THEN /\ tasks' = [tasks EXCEPT ![t] =
                          [pc |-> "sleeping",
                           wake_at |-> now + (limiter.min_delay - elapsed)]]
                    /\ UNCHANGED <<limiter, limiterLog>>
               ELSE /\ limiter' = [limiter EXCEPT !.last_op = now]
                    /\ granted(t)
    /\ UNCHANGED now
    /\ UNCHANGED notLimiter

\* sleep(wait_time) is over: the task takes the lock again and stamps last_op
AfterSleep(t) ==
    /\ tasks[t].pc = "sleeping"
    /\ now >= tasks[t].wake_at
    /\ limiter' = [limiter EXCEPT !.last_op = now]
    /\ granted(t)
    /\ UNCHANGED now
    /\ UNCHANGED notLimiter

\* The guard is dropped: its permit goes back
DropGuard(t) ==
    /\ tasks[t].pc = "granted"
    /\ limiter' = [limiter EXCEPT !.permits = @ + 1]
    /\ tasks' = [tasks EXCEPT ![t] = TaskIdle]
    /\ UNCHANGED <<now, limiterLog>>
    /\ UNCHANGED notLimiter

Tick ==
    /\ now < MaxTime
    /\ now' = now + 1
    /\ UNCHANGED <<limiter, tasks, limiterLog>>
    /\ UNCHANGED notLimiter

LimiterNext ==
    \/ \E t \in Tasks : AcquireCall(t)
    \/ \E t \in Tasks : AcquirePermit(t)
    \/ \E t \in Tasks : EnforceDelay(t)
    \/ \E t \in Tasks : AfterSleep(t)
    \/ \E t \in Tasks : DropGuard(t)
    \/ Tick

LimiterInit == EarlierIdle /\ WriteIdle /\ ClientIdle /\ BackoffIdle /\ RateLimiterNew /\ MigrationIdle /\ InodeIdle /\ ConfigIdle /\ LastIdle

SpecLimiter == LimiterInit /\ [][LimiterNext]_vars

\* The tasks that hold a guard, and those that hold a permit
guards_alive == {t \in Tasks : tasks[t].pc = "granted"}
permits_held == {t \in Tasks : tasks[t].pc \in {"permit", "sleeping", "granted"}}

\* C25: at most max_concurrent guards are alive, every permit taken is held
\* by a task inside acquire or by a live guard, and a dropped guard has given
\* its permit back.
C25_ConcurrencyBound ==
    /\ Cardinality(guards_alive) <= limiter.max_concurrent
    /\ limiter.permits >= 0
    /\ limiter.permits + Cardinality(permits_held) = limiter.max_concurrent

\* two guards of a limiter with max_concurrent = 2 are alive and a third
\* acquire waits for a permit
C25_Witness ==
    /\ limiter.max_concurrent = 2
    /\ Cardinality(guards_alive) = 2
    /\ limiter.permits = 0
    /\ \E t \in Tasks : tasks[t].pc = "waiting"

\* C26: with a minimum delay d > 0 any two acquire calls are granted at
\* least d apart.
C26_MinDelayApart ==
    limiter.min_delay > 0 =>
        \A i, j \in DOMAIN limiterLog.grants :
            i < j => limiterLog.grants[j].at - limiterLog.grants[i].at >= limiter.min_delay

----------------------------------------------------------------------------
(* migration.rs: migrate_metadata_db. The AEAD of crate::crypto is kept
   symbolically: a ciphertext names the key and nonce it was made with. *)

MaxMigrations == 2   \* runs of migrate_metadata_db, whole or interrupted

\* The metadata subkeys of HkdfMigration::new, and a key that is neither
OLD_METADATA_KEY == "telegramfs-metadata-v1"
NEW_METADATA_KEY == "tgcryptfs-metadata-v1"
MetadataKeys == {OLD_METADATA_KEY, NEW_METADATA_KEY, "other"}

\* crypto::encrypt(key, plaintext, &[]) with the nonce it drew, as raw bytes
encrypt(key, plaintext, nonce) == [key |-> key, nonce |-> nonce, plaintext |-> plaintext]

\* Bytes that are no EncryptedData
Garbage == [garbage |-> TRUE]

\* EncryptedData::from_bytes
from_bytes(raw) == IF raw = Garbage THEN Err("parse") ELSE Ok(raw)

\* crypto::decrypt(key, encrypted, &[]): the tag is right under the key the
\* data was encrypted with, and under no other
decrypt(key, encrypted) ==
    IF encrypted.key = key THEN Ok(encrypted.plaintext) ELSE Err("decrypt")

\* A re_encrypt that encrypts under the key it decrypted with
re_encrypt_same_key(raw_ciphertext, old_key, new_key, nonce) ==
    LET encrypted == from_bytes(raw_ciphertext)
    IN IF ~encrypted.ok THEN encrypted
       ELSE LET plaintext == decrypt(old_key, encrypted.v)
            IN IF ~plaintext.ok THEN plaintext
               ELSE Ok(encrypt(old_key, plaintext.v, nonce))

\* HkdfMigration::re_encrypt
re_encrypt(raw_ciphertext, old_key, new_key, nonce) ==
    LET encrypted == from_bytes(raw_ciphertext)
    IN IF ~encrypted.ok THEN encrypted
       ELSE LET plaintext == decrypt(old_key, encrypted.v)
            IN IF ~plaintext.ok THEN plaintext
               ELSE Ok(encrypt(new_key, plaintext.v, nonce))

\* HkdfMigration::re_encrypt_metadata
re_encrypt_metadata(raw_ciphertext, nonce) ==
    re_encrypt(raw_ciphertext, OLD_METADATA_KEY, NEW_METADATA_KEY, nonce)

\* db.tree_names(), in the order the loop meets them
TreeNames == <<"__sled__default", "inodes", "versions">>

\* The keys of a tree, in the order tree.iter() yields them
TreeKeys == <<1, 2>>

\* The keys of the tree whose value re_encrypt_metadata turned, in order
updates_of(tree, nonce) ==
    SelectSeq(TreeKeys, LAMBDA k : re_encrypt_metadata(tree[k], nonce).ok)

\* One tree after its loop: the first n updates inserted (all of them when
\* no insert fails)
migrate_tree(tree, nonce, n) ==
    LET updates == updates_of(tree, nonce)
        applied == {updates[i] : i \in 1..(IF n < Len(updates) THEN n ELSE Len(updates))}
    IN [k \in DOMAIN tree |->
          IF k \in applied THEN re_encrypt_metadata(tree[k], nonce).v ELSE tree[k]]

\* migrate_metadata_db: the trees before position stop are migrated whole,
\* the tree at stop gets n inserts before an insert fails, the trees after
\* it are not reached; stop past the last tree is a run that returns Ok
migrate_metadata_db(d, nonce, stop, n) ==
    [name \in DOMAIN d |->
        LET pos == CHOOSE i \in DOMAIN TreeNames : TreeNames[i] = name
        IN IF name = "__sled__default" THEN d[name]
           ELSE IF pos < stop THEN migrate_tree(d[name], nonce, Len(TreeKeys))
           ELSE IF pos = stop THEN migrate_tree(d[name], nonce, n)
           ELSE d[name]]

\* What an entry can hold: a plaintext of its own under one of the keys, or
\* bytes that are no ciphertext
StoredValues(p) == {encrypt(key, p, 0) : key \in MetadataKeys} \cup {Garbage}

\* A database written before the migration; sled's own tree holds no entry
\* of the metadata store
DatabaseNew ==
    /\ db \in [{"__sled__default", "inodes", "versions"} -> [{1, 2} -> StoredValues("p") \cup StoredValues("q")]]
    /\ \A name \in DOMAIN db :
          /\ db[name][1] \in StoredValues("p")
          /\ db[name][2] \in StoredValues("q")
          /\ name = "__sled__default" => db[name] = [k \in {1, 2} |-> Garbage]
          /\ name = "versions" => db[name][2] = Garbage
    /\ migLog = [original |-> db, runs |-> 0, completed |-> 0]

\* A run that returns Ok
Migrate ==
    /\ migLog.runs < MaxMigrations
    /\ db' = migrate_metadata_db(db, migLog.runs + 1, Len(TreeNames) + 1, 0)
    /\ migLog' = [migLog EXCEPT !.runs = @ + 1, !.completed = @ + 1]
    /\ UNCHANGED notMigration

\* A run that ends with the error of an insert (or of the process)
MigrateInterrupted(stop, n) ==
    /\ migLog.runs < MaxMigrations
    /\ n < Len(updates_of(db[TreeNames[stop]], migLog.runs + 1))
    /\ db' = migrate_metadata_db(db, migLog.runs + 1, stop, n)
    /\ migLog' = [migLog EXCEPT !.runs = @ + 1]
    /\ UNCHANGED notMigration

MigrationNext ==
    \/ Migrate
    \/ \E stop \in 2..Len(TreeNames), n \in 0..Len(TreeKeys) : MigrateInterrupted(stop, n)

MigrationInit == EarlierIdle /\ WriteIdle /\ ClientIdle /\ BackoffIdle /\ LimiterIdle /\ DatabaseNew /\ InodeIdle /\ ConfigIdle /\ LastIdle

SpecMigration == MigrationInit /\ [][MigrationNext]_vars

\* The plaintext an entry yields under the old or the new subkey, if any
readable(raw) ==
    IF ~from_bytes(raw).ok THEN None
    ELSE IF decrypt(NEW_METADATA_KEY, raw).ok THEN Some(decrypt(NEW_METADATA_KEY, raw).v)
    ELSE IF decrypt(OLD_METADATA_KEY, raw).ok THEN Some(decrypt(OLD_METADATA_KEY, raw).v)
    ELSE None

\* C27: an entry readable under the old or the new subkey keeps its plaintext
\* through every run and, once a run has returned Ok, decrypts under the new
\* subkey; an entry readable under neither key is never changed.
C27_MigrationIdempotent ==
    \A name \in DOMAIN db \ {"__sled__default"} : \A k \in DOMAIN db[name] :
        LET was == migLog.original[name][k]
            is == db[name][k]
        IN /\ readable(was) = None => is = was
           /\ readable(was) # None =>
                 /\ readable(is) = readable(was)
                 /\ migLog.completed >= 1 =>
                       /\ from_bytes(is).ok
                       /\ decrypt(NEW_METADATA_KEY, is) = Ok(readable(was).v)

\* an interrupted run and then a whole one over a tree that held an old-key,
\* a new-key and an unreadable entry; the old-key entry was re-encrypted
C27_Witness ==
    /\ migLog.runs = 2 /\ migLog.completed = 1
    /\ migLog.original["inodes"][1] = encrypt(OLD_METADATA_KEY, "p", 0)
    /\ migLog.original["inodes"][2] = encrypt("other", "q", 0)
    /\ migLog.original["versions"][1] = encrypt(NEW_METADATA_KEY, "p", 0)
    /\ db["inodes"][1] # migLog.original["inodes"][1]
    /\ decrypt(NEW_METADATA_KEY, db["inodes"][1]) = Ok("p")
    /\ db["inodes"][2] = migLog.original["inodes"][2]

----------------------------------------------------------------------------
(* metadata/inode.rs: the Inode constructors; chunk/mod.rs: ChunkManifest::new.
   The timestamps of the attributes are left out. *)

\* Chunker::file_hash: the hex string of the BLAKE3 hash, 64 characters
file_hash(data) == <<"blake3-hex", data>>

\* String::new()
String_new == <<>>

\* ChunkManifest::new
ChunkManifest_new(version) ==
    [version |-> version, total_size |-> 0, chunks |-> <<>>, file_hash |-> String_new]

\* InodeAttributes::new_file
InodeAttributes_new_file(uid, gid, perm) ==
    [size |-> 0, blocks |-> 0, kind |-> "RegularFile", perm |-> perm, nlink |-> 1,
     uid |-> uid, gid |-> gid, rdev |-> 0, blksize |-> 4096, flags |-> 0]

\* InodeAttributes::new_directory
InodeAttributes_new_directory(uid, gid, perm) ==
    [size |-> 0, blocks |-> 0, kind |-> "Directory", perm |-> perm, nlink |-> 2,
     uid |-> uid, gid |-> gid, rdev |-> 0, blksize |-> 4096, flags |-> 0]

\* Inode::new_file
Inode_new_file(ino, parent, name, uid, gid, perm) ==
    [ino |-> ino, parent |-> parent, name |-> name,
     attrs |-> InodeAttributes_new_file(uid, gid, perm),
     manifest |-> Some(ChunkManifest_new(0)),
     symlink_target |-> None, children |-> <<>>, version |-> 0, xattrs |-> <<>>]

\* Inode::new_directory
Inode_new_directory(ino, parent, name, uid, gid, perm) ==
    [ino |-> ino, parent |-> parent, name |-> name,
     attrs |-> InodeAttributes_new_directory(uid, gid, perm),
     manifest |-> None,
     symlink_target |-> None, children |-> <<>>, version |-> 0, xattrs |-> <<>>]

\* What the constructors are called with
InodeNumbers == {2, 3, 4}
InodeNames == {"a.txt", "b", "c"}
InodePerms == {420, 384, 493}

NewFile(ino, parent, name, perm) ==
    /\ inode' = [op |-> "new_file", inode |-> Inode_new_file(ino, parent, name, 1000, 1000, perm)]
    /\ UNCHANGED notInode

NewDirectory(ino, parent, name, perm) ==
    /\ inode' = [op |-> "new_directory",
                 inode |-> Inode_new_directory(ino, parent, name, 1000, 1000, perm)]
    /\ UNCHANGED notInode

InodeNext ==
    \/ \E ino \in InodeNumbers, parent \in {1, 2}, name \in InodeNames, perm \in InodePerms :
          NewFile(ino, parent, name, perm)
    \/ \E ino \in InodeNumbers, parent \in {1, 2}, name \in InodeNames, perm \in InodePerms :
          NewDirectory(ino, parent, name, perm)

InodeInit == EarlierIdle /\ WriteIdle /\ ClientIdle /\ BackoffIdle /\ LimiterIdle /\ MigrationIdle /\ inode = [op |-> "none"] /\ ConfigIdle /\ LastIdle

SpecInode == InodeInit /\ [][InodeNext]_vars

\* C29: the manifest of an inode made by Inode::new_file has no chunks,
\* total_size 0 and the hash of the empty byte string as file_hash, and the
\* inode's size is 0.
C29_EmptyFileManifest ==
    inode.op = "new_file" =>
        /\ inode.inode.manifest.some
        /\ inode.inode.manifest.v.chunks = <<>>
        /\ inode.inode.manifest.v.total_size = 0
        /\ inode.inode.attrs.size = 0
        /\ inode.inode.manifest.v.file_hash = file_hash(<<>>)

----------------------------------------------------------------------------
(* config.rs: Config::load, Config::from_env, apply_env_overrides, validate.
   A string is the sequence of its characters; the sizes are numbers of any
   size (digits to the base 10000). *)

\* config.rs:8, 50 * 1024 * 1024
DEFAULT_CHUNK_SIZE == big_of(52428800)

\* 2 * 1024 * 1024 * 1024, and one more
TwoGiB == <<3648, 4748, 21>>
TwoGiBPlusOne == <<3649, 4748, 21>>

DigitChars == <<"0", "1", "2", "3", "4", "5", "6", "7", "8", "9">>

digit_value(ch) == (CHOOSE i \in DOMAIN DigitChars : DigitChars[i] = ch) - 1

is_digit(ch) == \E i \in DOMAIN DigitChars : DigitChars[i] = ch

\* str::trim
RECURSIVE trim_start(_)
trim_start(str) == IF str # <<>> /\ Head(str) = " " THEN trim_start(Tail(str)) ELSE str
RECURSIVE trim_end(_)
trim_end(str) ==
    IF str # <<>> /\ str[Len(str)] = " " THEN trim_end(SubSeq(str, 1, Len(str) - 1)) ELSE str
trim(str) == trim_end(trim_start(str))

\* The number a string of digits writes
RECURSIVE digits_value(_, _)
digits_value(str, acc) ==
    IF str = <<>> THEN acc
    ELSE digits_value(Tail(str), big_add(big_mul_digit(acc, 10, 0), big_of(digit_value(Head(str))), 0))

\* str::parse for an unsigned integer not above max: an optional + and at
\* least one digit, nothing else
parse_unsigned(str, max) ==
    LET digits == IF str # <<>> /\ Head(str) = "+" THEN Tail(str) ELSE str
    IN IF digits = <<>> \/ \E i \in DOMAIN digits : ~is_digit(digits[i]) THEN Err("parse")
       ELSE IF big_less(max, digits_value(digits, <<>>)) THEN Err("overflow")
       ELSE Ok(digits_value(digits, <<>>))

\* i32::MAX; the ids of the environments below are unsigned, so the i32 parse
\* of apply_env_overrides is the unsigned parse up to this value
I32Max == <<3647, 4748, 21>>

\* Config::default(), the fields the calls look at
Config_default ==
    [telegram |-> [api_id |-> <<>>, api_hash |-> <<>>],
     chunk |-> [chunk_size |-> DEFAULT_CHUNK_SIZE]]

\* Config::apply_env_overrides; env gives for each variable None or its text
apply_env_overrides(c, env) ==
    LET api_id == IF env.TELEGRAM_APP_ID.some
                  THEN parse_unsigned(trim(env.TELEGRAM_APP_ID.v), I32Max) ELSE Err("unset")
        api_hash == IF env.TELEGRAM_APP_HASH.some THEN trim(env.TELEGRAM_APP_HASH.v) ELSE <<>>
        chunk_size == IF env.TELEGRAMFS_CHUNK_SIZE.some
                      THEN parse_unsigned(trim(env.TELEGRAMFS_CHUNK_SIZE.v), U64Max)
                      ELSE Err("unset")
    IN [telegram |-> [api_id |-> IF api_id.ok THEN api_id.v ELSE c.telegram.api_id,
                      api_hash |-> IF api_hash # <<>> THEN api_hash ELSE c.telegram.api_hash],
        chunk |-> [chunk_size |-> IF chunk_size.ok THEN chunk_size.v ELSE c.chunk.chunk_size]]

\* Config::validate
validate(c) ==
    IF c.telegram.api_id = <<>> THEN Err("Telegram API ID is required")
    ELSE IF c.telegram.api_hash = <<>> THEN Err("Telegram API hash is required")
    ELSE IF c.chunk.chunk_size = <<>> THEN Err("Chunk size must be greater than 0")
    ELSE IF big_less(TwoGiB, c.chunk.chunk_size)
    THEN Err("Chunk size exceeds Telegram's 2GB limit")
    ELSE Ok(<<>>)

\* Config::load, of a file that was read and parsed into c
load(c, env) ==
    LET overridden == apply_env_overrides(c, env)
    IN IF validate(overridden).ok THEN Ok(overridden) ELSE validate(overridden)

\* Config::from_env
from_env(env) ==
    LET overridden == apply_env_overrides(Config_default, env)
    IN IF overridden.telegram.api_id = <<>>
       THEN Err("TELEGRAM_APP_ID environment variable is required")
       ELSE IF overridden.telegram.api_hash = <<>>
       THEN Err("TELEGRAM_APP_HASH environment variable is required")
       ELSE Ok(overridden)

\* The chunk sizes a config file carries
FileChunkSizes == {<<>>, big_of(4096), DEFAULT_CHUNK_SIZE, TwoGiB, TwoGiBPlusOne}

\* The config files
ConfigFiles ==
    {[telegram |-> [api_id |-> id, api_hash |-> hash], chunk |-> [chunk_size |-> size]] :
        id \in {<<>>, big_of(12345)}, hash \in {<<>>, <<"h">>}, size \in FileChunkSizes}

\* The texts TELEGRAMFS_CHUNK_SIZE is set to
ChunkSizeTexts ==
    {<<"0">>, <<" ", "4", "0", "9", "6", " ">>, <<"+", "1">>, <<"4", "k">>, <<>>,
     <<"2", "1", "4", "7", "4", "8", "3", "6", "4", "8">>,
     <<"2", "1", "4", "7", "4", "8", "3", "6", "4", "9">>}

\* The environments
Environments ==
    {[TELEGRAM_APP_ID |-> id, TELEGRAM_APP_HASH |-> hash, TELEGRAMFS_CHUNK_SIZE |-> size] :
        id \in {None, Some(<<"1", "2", "3", "4", "5">>)},
        hash \in {None, Some(<<"h">>)},
        size \in {None} \cup {Some(text) : text \in ChunkSizeTexts}}

ConfigLoad(c, env) ==
    /\ config' = [op |-> "load", file |-> c, env |-> env, result |-> load(c, env)]
    /\ UNCHANGED notConfig

ConfigFromEnv(env) ==
    /\ config' = [op |-> "from_env", env |-> env, result |-> from_env(env)]
    /\ UNCHANGED notConfig

ConfigNext ==
    \/ \E c \in ConfigFiles, env \in Environments : ConfigLoad(c, env)
    \/ \E env \in Environments : ConfigFromEnv(env)

ConfigInit == EarlierIdle /\ WriteIdle /\ ClientIdle /\ BackoffIdle /\ LimiterIdle /\ MigrationIdle /\ InodeIdle /\ config = [op |-> "none"] /\ LastIdle

SpecConfig == ConfigInit /\ [][ConfigNext]_vars

\* C30: a Config that load or from_env returns has a chunk size above 0 and
\* not above 2 GiB.
C30_ChunkSizeInRange ==
    (config.op \in {"load", "from_env"} /\ config.result.ok) =>
        /\ config.result.v.chunk.chunk_size # <<>>
        /\ ~big_less(TwoGiB, config.result.v.chunk.chunk_size)

\* The same for the Configs that load returns
LoadChunkSizeInRange ==
    (config.op = "load" /\ config.result.ok) =>
        /\ config.result.v.chunk.chunk_size # <<>>
        /\ ~big_less(TwoGiB, config.result.v.chunk.chunk_size)

----------------------------------------------------------------------------
(* Load of the placement of raid/stripe.rs (checked under SpecStripe) *)

\* One full cycle of stripe indices: rotation = stripe_index % total_shards
\* repeats after total_shards indices
cycle_indices(m) == 0..m.encoder.total_shards - 1

\* The blocks among positions that get_assignments gives the account over
\* one cycle, as (stripe index, block index) pairs
cycle_blocks_on(m, account, block_positions) ==
    {ib \in cycle_indices(m) \X block_positions :
        get_assignments(m, ib[1])[ib[2]] = account}

all_positions(m) == 0..m.encoder.total_shards - 1
parity_positions(m) == m.encoder.data_shards..m.encoder.total_shards - 1

\* C31: over one full cycle of stripe indices every account is assigned the
\* same number of blocks, and the same number of parity blocks.
C31_UniformLoad ==
    res.op = "get_assignments" =>
        \A a1, a2 \in 0..sm.num_accounts - 1 :
            /\ Cardinality(cycle_blocks_on(sm, a1, all_positions(sm)))
                 = Cardinality(cycle_blocks_on(sm, a2, all_positions(sm)))
            /\ Cardinality(cycle_blocks_on(sm, a1, parity_positions(sm)))
                 = Cardinality(cycle_blocks_on(sm, a2, parity_positions(sm)))

\* The same where the pool has exactly as many accounts as a stripe has blocks
UniformLoadExactPool ==
    (res.op = "get_assignments" /\ sm.num_accounts = sm.encoder.total_shards) =>
        \A a1, a2 \in 0..sm.num_accounts - 1 :
            /\ Cardinality(cycle_blocks_on(sm, a1, all_positions(sm)))
                 = Cardinality(cycle_blocks_on(sm, a2, all_positions(sm)))
            /\ Cardinality(cycle_blocks_on(sm, a1, parity_positions(sm)))
                 = Cardinality(cycle_blocks_on(sm, a2, parity_positions(sm)))

----------------------------------------------------------------------------
(* Garbage collection after metadata/version.rs (checked under SpecVersion) *)

\* C32: get_orphaned_chunks returns no chunk id that a version still
\* retained for the inode refers to.
C32_OrphansNotRetained ==
    versionLog.query.op = "get_orphaned_chunks" =>
        versionLog.query.returned \cap retained_ids(versionLog.query.ino) = {}

\* The same where the inode retains no version
OrphansOfNoVersions ==
    (/\ versionLog.query.op = "get_orphaned_chunks"
     /\ retained_ids(versionLog.query.ino) = {}) =>
        versionLog.query.returned = {}

----------------------------------------------------------------------------
(* fs/handle.rs: a flusher (get_write_buffer, clear_write_buffer,
   clear_dirty) beside the writers of one FileHandle *)

FlusherIdle == [pc |-> "idle", snapshot |-> <<>>]

\* get_write_buffer: the clone is taken under the read lock, which is given
\* when no writer holds the lock, and the guard is dropped
FlushGetWriteBuffer ==
    /\ flush.pc = "idle"
    /\ write_lock_free(write_buffer)
    /\ flush' = [pc |-> "got", snapshot |-> write_buffer.data]
    /\ UNCHANGED writeVars
    /\ UNCHANGED notFlush

\* clear_write_buffer: the buffer is cleared under the write lock
FlushClearWriteBuffer ==
    /\ flush.pc = "got"
    /\ write_lock_free(write_buffer)
    /\ write_buffer' = [write_buffer EXCEPT !.data = <<>>]
    /\ flush' = [flush EXCEPT !.pc = "cleared"]
    /\ UNCHANGED <<dirty, writers, writeLog>>
    /\ UNCHANGED notFlush

\* clear_dirty
FlushClearDirty ==
    /\ flush.pc = "cleared"
    /\ dirty' = FALSE
    /\ flush' = [flush EXCEPT !.pc = "done"]
    /\ UNCHANGED <<write_buffer, writers, writeLog>>
    /\ UNCHANGED notFlush

FlushNext ==
    \/ \E t \in Threads, data \in WriteData : WriteCall(t, data)
    \/ \E t \in Threads : WriteLock(t)
    \/ \E t \in Threads : WriteCopy(t)
    \/ \E t \in Threads : WriteMarkDirty(t)
    \/ FlushGetWriteBuffer
    \/ FlushClearWriteBuffer
    \/ FlushClearDirty

FlushInit ==
    /\ EarlierIdle /\ FileHandleNew /\ ClientIdle /\ BackoffIdle /\ LimiterIdle
    /\ MigrationIdle /\ InodeIdle /\ ConfigIdle
    /\ flush = FlusherIdle
    /\ RaidMigrateIdle /\ SyncIdle /\ OverlayIdle

SpecFlush == FlushInit /\ [][FlushNext]_vars

\* Every operation has finished: no write is in progress and the flush is done
all_finished ==
    /\ \A t \in Threads : writers[t] = WriterIdle
    /\ flush.pc = "done"

\* C33: once the writes and the flush have finished, the bytes written are
\* the snapshot of the flush followed by the write buffer, and the handle is
\* dirty when the buffer holds bytes.
C33_NoWriteLost ==
    all_finished =>
        /\ whole_writes(Len(writeLog.locked)) = flush.snapshot \o write_buffer.data
        /\ write_buffer.data # <<>> => dirty

\* Where every write was in the buffer when the flush took its snapshot, the
\* flush leaves the buffer empty
FlushAloneKeepsBytes ==
    (all_finished /\ flush.snapshot = whole_writes(Len(writeLog.locked))) =>
        write_buffer.data = <<>>

----------------------------------------------------------------------------
(* raid/migrate.rs: MigrationManager::migrate_manifest *)

MaxMigrateCalls == 2   \* migrate_manifest calls on one manager

\* The pool the manager migrates to: 1 data block and 1 parity block on 2 accounts
migrate_stripe_manager == StripeManager_new(1, 2, 2).v

\* The chunks of the source account: id, size, message id, offset
ChunkRef1 ==
    [id |-> "c1", size |-> 5, message_id |-> 11, offset |-> 0,
     original_size |-> 4, compressed |-> FALSE]
ChunkRef2 ==
    [id |-> "c2", size |-> 3, message_id |-> 12, offset |-> 4,
     original_size |-> 2, compressed |-> TRUE]

\* The manifests of the files to migrate
MigrateManifests ==
    {[version |-> 7, total_size |-> 6, chunks |-> refs, file_hash |-> "hash"] :
        refs \in {<<>>, <<ChunkRef1>>, <<ChunkRef1, ChunkRef2>>}}

MigrationConfigs ==
    [dry_run : BOOLEAN, delete_old_messages : BOOLEAN,
     continue_on_error : BOOLEAN, verify_after_migration : BOOLEAN]

\* ErasureChunkManifest::new and the two assignments that follow it
ErasureChunkManifest_new(manifest) ==
    [version |-> manifest.version,
     data_chunks |-> as_u8(migrate_stripe_manager.encoder.data_shards),
     total_chunks |-> as_u8(migrate_stripe_manager.encoder.total_shards),
     total_size |-> manifest.total_size,
     file_hash |-> manifest.file_hash,
     chunks |-> <<>>]

\* The ErasureChunkRef built from a chunk reference and the stripe's info
erasure_ref(chunk_ref, stripe_info) ==
    [id |-> chunk_ref.id, offset |-> chunk_ref.offset,
     original_size |-> chunk_ref.original_size, compressed |-> chunk_ref.compressed,
     stripe |-> stripe_info, version |-> 1]

\* A dry-run manifest whose first block claims a message
create_dry_run_manifest_uploaded(manifest) ==
    LET st == create_stripe(migrate_stripe_manager, "", <<>>, 0).v
    IN Ok([ErasureChunkManifest_new(manifest) EXCEPT !.chunks =
              [i \in DOMAIN manifest.chunks |->
                  erasure_ref(manifest.chunks[i],
                              to_stripe_info(migrate_stripe_manager, st, <<<<0, 1>>>>))]])

\* MigrationManager::create_dry_run_manifest
create_dry_run_manifest(manifest) ==
    LET placeholder(chunk_ref) ==
            LET st == create_stripe(migrate_stripe_manager, chunk_ref.id, <<>>, 0)
            IN IF ~st.ok THEN st
               ELSE Ok(erasure_ref(chunk_ref, to_stripe_info(migrate_stripe_manager, st.v, <<>>)))
    IN IF \E i \in DOMAIN manifest.chunks : ~placeholder(manifest.chunks[i]).ok
       THEN Err("Encode")
       ELSE Ok([ErasureChunkManifest_new(manifest) EXCEPT !.chunks =
                   [i \in DOMAIN manifest.chunks |-> placeholder(manifest.chunks[i]).v]])

\* pool.upload_stripe: the blocks in uploaded reach their accounts
upload_stripe(st, uploaded) ==
    to_stripe_info(migrate_stripe_manager, st,
                   [k \in 1..Len(SetToSeq(uploaded)) |->
                       <<SetToSeq(uploaded)[k], MsgBase + SetToSeq(uploaded)[k]>>])

\* MigrationManager::verify_migration
verify_migration(original, erasure) ==
    IF Len(original.chunks) # Len(erasure.chunks) THEN Err("Chunk count mismatch")
    ELSE IF original.total_size # erasure.total_size THEN Err("Total size mismatch")
    ELSE IF original.file_hash # erasure.file_hash THEN Err("File hash mismatch")
    ELSE IF \E i \in DOMAIN erasure.chunks : ~can_reconstruct(erasure.chunks[i].stripe)
    THEN Err("cannot be reconstructed")
    ELSE Ok(<<>>)

\* What pool.upload_stripe does with a stripe: it fails, or it returns the
\* StripeInfo of the blocks that reached their accounts
UploadOutcomes == {Err("upload")} \cup {Ok(uploaded) : uploaded \in SUBSET (0..1)}

\* MigrationManager::migrate_chunk, given what the download from the source
\* and the upload to the pool do; ops are the calls it made on the two
migrate_chunk(chunk_ref, stripe_index, download, upload) ==
    LET download_op == [op |-> "download", message_id |-> chunk_ref.message_id]
        upload_op == [op |-> "upload", id |-> chunk_ref.id]
        st == create_stripe(migrate_stripe_manager, chunk_ref.id, download.v, stripe_index)
    IN IF ~download.ok THEN [result |-> download, ops |-> <<download_op>>]
       ELSE IF ~st.ok THEN [result |-> st, ops |-> <<download_op>>]
       ELSE IF ~upload.ok THEN [result |-> upload, ops |-> <<download_op, upload_op>>]
       ELSE [result |-> Ok(erasure_ref(chunk_ref, upload_stripe(st.v, upload.v))),
             ops |-> <<download_op, upload_op>>]

\* A loop that reports no failure
loop_never_failed(c) == FALSE

\* The flag failed after the loop over the chunks
loop_failed(c) == c.failed

MigrateIdle == [pc |-> "idle", calls |-> 0]

\* MigrationManager::new, and the source account holding the two chunks
MigrationManagerNew ==
    /\ \E cfg \in MigrationConfigs :
         migrator = [config |-> cfg, completed_chunks |-> 0, completed_files |-> 0,
                     bytes_processed |-> 0]
    /\ mstore = [source |-> {11, 12}, pool |-> {}]
    /\ mcall = MigrateIdle

\* The call returns result
migrate_return(c, result) == [c EXCEPT !.pc = "done", !.result = result]

\* The end of migrate_manifest: completed_files is counted, Ok is returned
migrate_complete(c) == migrate_return(c, Ok(c.erasure_manifest))

\* migrate_manifest is called; a dry run returns at once
MigrateManifest(manifest) ==
    /\ mcall.pc \in {"idle", "done"}
    /\ mcall.calls < MaxMigrateCalls
    /\ LET c == [pc |-> "chunk", calls |-> mcall.calls + 1, manifest |-> manifest,
                 chunk_index |-> 0, erasure_manifest |-> ErasureChunkManifest_new(manifest),
                 old_message_ids |-> <<>>, failed |-> FALSE, result |-> None,
                 ops |-> <<>>, before |-> [migrator |-> migrator, mstore |-> mstore]]
       IN mcall' = IF migrator.config.dry_run
                   THEN migrate_return(c, create_dry_run_manifest(manifest))
                   ELSE c
    /\ UNCHANGED <<migrator, mstore>>
    /\ UNCHANGED notRaidMigrate

\* One turn of the loop over manifest.chunks
MigrateChunk(download_ok, upload) ==
    /\ mcall.pc = "chunk"
    /\ mcall.chunk_index < Len(mcall.manifest.chunks)
    /\ LET chunk_ref == mcall.manifest.chunks[mcall.chunk_index + 1]
           download == IF download_ok /\ chunk_ref.message_id \in mstore.source
                       THEN Ok(<<chunk_ref.message_id>>) ELSE Err("download")
           r == migrate_chunk(chunk_ref, mcall.chunk_index, download, upload)
           c == [mcall EXCEPT !.ops = @ \o r.ops, !.chunk_index = @ + 1]
       IN IF r.result.ok
          THEN /\ mcall' = [c EXCEPT !.erasure_manifest.chunks = Append(@, r.result.v),
                                     !.old_message_ids = Append(@, chunk_ref.message_id),
                                     !.ops = Append(@, [op |-> "migrated", id |-> chunk_ref.id])]
               /\ migrator' = [migrator EXCEPT !.completed_chunks = @ + 1,
                                               !.bytes_processed = @ + chunk_ref.size]
               /\ mstore' = [mstore EXCEPT !.pool =
                                @ \cup {<<chunk_ref.id, b>> : b \in upload.v}]
          ELSE /\ mcall' = IF ~migrator.config.continue_on_error
                           THEN migrate_return(c, r.result)
                           ELSE [c EXCEPT !.failed = TRUE]
               /\ UNCHANGED <<migrator, mstore>>
    /\ UNCHANGED notRaidMigrate

\* After the loop: the failure is returned, the migration is verified, and
\* without messages to delete the file is counted as completed
MigrateAfterLoop ==
    /\ mcall.pc = "chunk"
    /\ mcall.chunk_index = Len(mcall.manifest.chunks)
    /\ LET verified == IF migrator.config.verify_after_migration
                       THEN verify_migration(mcall.manifest, mcall.erasure_manifest)
                       ELSE Ok(<<>>)
           c == IF migrator.config.verify_after_migration /\ ~loop_failed(mcall)
                THEN [mcall EXCEPT !.ops = Append(@, [op |-> "verify", ok |-> verified.ok])]
                ELSE mcall
           deleting == migrator.config.delete_old_messages /\ mcall.old_message_ids # <<>>
       IN IF loop_failed(mcall)
          THEN /\ mcall' = migrate_return(c, Err("Migration partially failed"))
               /\ UNCHANGED migrator
          ELSE IF ~verified.ok
          THEN /\ mcall' = migrate_return(c, verified)
               /\ UNCHANGED migrator
          ELSE IF deleting
          THEN /\ mcall' = [c EXCEPT !.pc = "delete"]
               /\ UNCHANGED migrator
          ELSE /\ mcall' = migrate_complete(c)
               /\ migrator' = [migrator EXCEPT !.completed_files = @ + 1]
    /\ UNCHANGED mstore
    /\ UNCHANGED notRaidMigrate

\* One turn of the loop over old_message_ids: source.delete_message, whose
\* failure is logged and passed over; after the last the file is counted
MigrateDelete(delete_ok) ==
    /\ mcall.pc = "delete"
    /\ LET msg_id == Head(mcall.old_message_ids)
           c == [mcall EXCEPT !.old_message_ids = Tail(@),
                              !.ops = Append(@, [op |-> "delete", message_id |-> msg_id])]
           last == Len(mcall.old_message_ids) = 1
       IN /\ mstore' = IF delete_ok THEN [mstore EXCEPT !.source = @ \ {msg_id}] ELSE mstore
          /\ mcall' = IF last THEN migrate_complete(c) ELSE c
          /\ migrator' = IF last THEN [migrator EXCEPT !.completed_files = @ + 1]
                         ELSE migrator
    /\ UNCHANGED notRaidMigrate

RaidMigrateNext ==
    \/ \E manifest \in MigrateManifests : MigrateManifest(manifest)
    \/ \E download_ok \in BOOLEAN, upload \in UploadOutcomes : MigrateChunk(download_ok, upload)
    \/ MigrateAfterLoop
    \/ \E delete_ok \in BOOLEAN : MigrateDelete(delete_ok)

RaidMigrateInit == EarlierIdle /\ MiddleIdle /\ FlushIdle /\ MigrationManagerNew /\ SyncIdle /\ OverlayIdle

SpecRaidMigrate == RaidMigrateInit /\ [][RaidMigrateNext]_vars

\* The positions of the call's log where the chunk id was migrated successfully
migrated_at(id) ==
    {j \in DOMAIN mcall.ops : mcall.ops[j] = [op |-> "migrated", id |-> id]}

\* A chunk of the running call failed, or its verification did
migrate_failed ==
    \/ \E i \in 1..mcall.chunk_index : migrated_at(mcall.manifest.chunks[i].id) = {}
    \/ \E j \in DOMAIN mcall.ops : mcall.ops[j] = [op |-> "verify", ok |-> FALSE]

\* C34: a source message is deleted only when delete_old_messages is set,
\* after every chunk of the file was migrated successfully and, with
\* verify_after_migration, after the verification passed; when a chunk or
\* the verification failed no source message is deleted and completed_files
\* stays as it was.
C34_DeleteAfterSuccess ==
    mcall.pc # "idle" =>
        /\ \A j \in DOMAIN mcall.ops :
             mcall.ops[j].op = "delete" =>
                /\ migrator.config.delete_old_messages
                /\ \A i \in DOMAIN mcall.manifest.chunks :
                      \E k \in migrated_at(mcall.manifest.chunks[i].id) : k < j
                /\ migrator.config.verify_after_migration =>
                      \E k \in 1..(j - 1) : mcall.ops[k] = [op |-> "verify", ok |-> TRUE]
        /\ migrate_failed =>
             /\ \A j \in DOMAIN mcall.ops : mcall.ops[j].op # "delete"
             /\ mstore.source = mcall.before.mstore.source
             /\ migrator.completed_files = mcall.before.migrator.completed_files

\* a file of two chunks was migrated, verified, and both its messages deleted
C34_Witness ==
    /\ mcall.pc = "done"
    /\ mcall.result.ok
    /\ migrator.config.verify_after_migration
    /\ Len(mcall.manifest.chunks) = 2
    /\ mstore.source = {}
    /\ migrator.completed_files = mcall.before.migrator.completed_files + 1

\* a chunk failed with continue_on_error set, the loop went on to the next
\* chunk, and the call returned the error with both messages still there
C34_WitnessFailed ==
    /\ mcall.pc = "done"
    /\ ~mcall.result.ok
    /\ migrator.config.continue_on_error /\ migrator.config.delete_old_messages
    /\ mcall.chunk_index = 2
    /\ migrated_at("c1") = {} /\ migrated_at("c2") # {}
    /\ mstore.source = {11, 12}

\* C35: a dry run makes no call on the source or the pool and leaves the
\* counters as they were; the manifest it returns has the chunk ids, offsets
\* and sizes of the input and no block with a message id.
C35_DryRunNoEffect ==
    (mcall.pc # "idle" /\ migrator.config.dry_run) =>
        /\ mcall.pc = "done"
        /\ mcall.ops = <<>>
        /\ mstore = mcall.before.mstore
        /\ migrator = mcall.before.migrator
        /\ mcall.result.ok
        /\ LET returned == mcall.result.v
           IN /\ returned.total_size = mcall.manifest.total_size
              /\ Len(returned.chunks) = Len(mcall.manifest.chunks)
              /\ \A i \in DOMAIN returned.chunks :
                    /\ returned.chunks[i].id = mcall.manifest.chunks[i].id
                    /\ returned.chunks[i].offset = mcall.manifest.chunks[i].offset
                    /\ returned.chunks[i].original_size = mcall.manifest.chunks[i].original_size
                    /\ \A b \in DOMAIN returned.chunks[i].stripe.blocks :
                          is_none(returned.chunks[i].stripe.blocks[b].message_id)

\* a dry run of a file of two chunks, the second call on the manager
C35_Witness ==
    /\ migrator.config.dry_run
    /\ mcall.pc = "done"
    /\ mcall.calls = 2
    /\ mcall.result.ok
    /\ Len(mcall.result.v.chunks) = 2

----------------------------------------------------------------------------
(* distributed/sync.rs: SyncDaemon.  start takes the daemon by value, so the
   methods that borrow it (stop, sync_now) are called before start is. *)

MaxSyncs == 3   \* sync attempts of one daemon, by sync_now and by the loop

ReplicationRoles == {"Master", "Replica"}

\* SyncStatus::new
SyncStatus_new(role) ==
    [role |-> role, last_error |-> None, sync_count |-> 0, error_count |-> 0,
     current_version |-> 0, is_running |-> FALSE]

\* SyncStatus::mark_success
mark_success(st, version) ==
    [st EXCEPT !.last_error = None, !.sync_count = @ + 1, !.current_version = version]

\* SyncStatus::mark_error
mark_error(st, error) ==
    [st EXCEPT !.last_error = Some(error), !.error_count = @ + 1]

\* A loop that never sees the shutdown flag
shutdown_ignored(d) == FALSE

\* *shutdown.read().await
shutdown_requested(d) == d.shutdown

\* Every role syncing as the master does
sync_calls_of_master(role) == <<"create_snapshot", "upload_snapshot">>

\* The two calls of master_sync / replica_sync on the SnapshotManager
sync_calls(role) ==
    IF role = "Master" THEN <<"create_snapshot", "upload_snapshot">>
    ELSE <<"download_latest_snapshot", "apply_snapshot">>

SyncTaskIdle == [pc |-> "idle"]

\* SyncDaemon::new
SyncDaemonNew ==
    /\ \E role \in ReplicationRoles :
         daemon = [role |-> role, shutdown |-> FALSE, status |-> SyncStatus_new(role)]
    /\ syncTasks = [loop |-> [pc |-> "new"], now |-> SyncTaskIdle]
    /\ syncLog = [calls |-> <<>>, attempts |-> 0]

\* stop, on a daemon that start has not taken
Stop ==
    /\ syncTasks.loop.pc = "new"
    /\ ~daemon.shutdown
    /\ daemon' = [daemon EXCEPT !.shutdown = TRUE]
    /\ UNCHANGED <<syncTasks, syncLog>>
    /\ UNCHANGED notSync

\* sync_now is called, on a daemon that start has not taken
SyncNow ==
    /\ syncTasks.loop.pc = "new"
    /\ syncTasks.now.pc = "idle"
    /\ syncLog.attempts < MaxSyncs
    /\ syncTasks' = [syncTasks EXCEPT !.now = [pc |-> "first"]]
    /\ syncLog' = [syncLog EXCEPT !.attempts = @ + 1]
    /\ UNCHANGED daemon
    /\ UNCHANGED notSync

\* start(self): no borrow of the daemon is left
Start ==
    /\ syncTasks.loop.pc = "new"
    /\ syncTasks.now.pc = "idle"
    /\ syncTasks' = [syncTasks EXCEPT !.loop = [pc |-> "mark_running"]]
    /\ UNCHANGED <<daemon, syncLog>>
    /\ UNCHANGED notSync

\* "Mark as running"
LoopMarkRunning ==
    /\ syncTasks.loop.pc = "mark_running"
    /\ daemon' = [daemon EXCEPT !.status.is_running = TRUE]
    /\ syncTasks' = [syncTasks EXCEPT !.loop = [pc |-> "check"]]
    /\ UNCHANGED syncLog
    /\ UNCHANGED notSync

\* "Check for shutdown"
LoopCheck ==
    /\ syncTasks.loop.pc = "check"
    /\ syncTasks' = [syncTasks EXCEPT !.loop =
           [pc |-> IF shutdown_requested(daemon) THEN "mark_stopped" ELSE "tick"]]
    /\ UNCHANGED <<daemon, syncLog>>
    /\ UNCHANGED notSync

\* sync_interval.tick() completes and the sync of the role begins
LoopTick ==
    /\ syncTasks.loop.pc = "tick"
    /\ syncLog.attempts < MaxSyncs
    /\ syncTasks' = [syncTasks EXCEPT !.loop = [pc |-> "first"]]
    /\ syncLog' = [syncLog EXCEPT !.attempts = @ + 1]
    /\ UNCHANGED daemon
    /\ UNCHANGED notSync

\* The call of a task on the SnapshotManager, as the log keeps it
sync_call(t, name) == [task |-> t, call |-> name, stopped |-> daemon.shutdown]

\* master_sync / replica_sync: the first call, whose error is returned
SyncFirst(t, ok) ==
    /\ syncTasks[t].pc = "first"
    /\ syncLog' = [syncLog EXCEPT !.calls = Append(@, sync_call(t, sync_calls(daemon.role)[1]))]
    /\ syncTasks' = [syncTasks EXCEPT ![t] =
           IF ok THEN [pc |-> "second"] ELSE [pc |-> "status", result |-> Err("first")]]
    /\ UNCHANGED daemon
    /\ UNCHANGED notSync

\* master_sync / replica_sync: the second call
SyncSecond(t, ok) ==
    /\ syncTasks[t].pc = "second"
    /\ syncLog' = [syncLog EXCEPT !.calls = Append(@, sync_call(t, sync_calls(daemon.role)[2]))]
    /\ syncTasks' = [syncTasks EXCEPT ![t] =
           [pc |-> "status",
            result |-> IF ok THEN Ok(Len(syncLog.calls) + 1) ELSE Err("second")]]
    /\ UNCHANGED daemon
    /\ UNCHANGED notSync

\* "Update status", under the write lock of status; the loop goes round and
\* sync_now returns
SyncUpdateStatus(t) ==
    /\ syncTasks[t].pc = "status"
    /\ daemon' = [daemon EXCEPT !.status =
           IF syncTasks[t].result.ok THEN mark_success(@, syncTasks[t].result.v)
           ELSE mark_error(@, syncTasks[t].result.err)]
    /\ syncTasks' = [syncTasks EXCEPT ![t] = IF t = "loop" THEN [pc |-> "check"] ELSE SyncTaskIdle]
    /\ UNCHANGED syncLog
    /\ UNCHANGED notSync

\* "Mark as not running", and start returns
LoopMarkStopped ==
    /\ syncTasks.loop.pc = "mark_stopped"
    /\ daemon' = [daemon EXCEPT !.status.is_running = FALSE]
    /\ syncTasks' = [syncTasks EXCEPT !.loop = [pc |-> "exited"]]
    /\ UNCHANGED syncLog
    /\ UNCHANGED notSync

\* The steps of the task that runs start
LoopNext ==
    \/ LoopMarkRunning
    \/ LoopCheck
    \/ LoopTick
    \/ \E ok \in BOOLEAN : SyncFirst("loop", ok)
    \/ \E ok \in BOOLEAN : SyncSecond("loop", ok)
    \/ SyncUpdateStatus("loop")
    \/ LoopMarkStopped

SyncNext ==
    \/ Stop
    \/ SyncNow
    \/ Start
    \/ LoopNext
    \/ \E ok \in BOOLEAN : SyncFirst("now", ok)
    \/ \E ok \in BOOLEAN : SyncSecond("now", ok)
    \/ SyncUpdateStatus("now")

SyncInit == EarlierIdle /\ MiddleIdle /\ FlushIdle /\ RaidMigrateIdle /\ SyncDaemonNew /\ OverlayIdle

\* The task that runs start is scheduled as long as it can take a step
SpecSync == SyncInit /\ [][SyncNext]_vars /\ WF_vars(LoopNext)

loop_started == syncTasks.loop.pc # "new"

\* C36: once the shutdown flag is set the loop makes no call on the
\* SnapshotManager, and a loop that was started exits with is_running false.
C36_StopEndsLoop ==
    /\ [](\A i \in DOMAIN syncLog.calls :
             syncLog.calls[i].task = "loop" => ~syncLog.calls[i].stopped)
    /\ (daemon.shutdown /\ loop_started)
          ~> (syncTasks.loop.pc = "exited" /\ ~daemon.status.is_running)

\* stop was called after a sync_now, start was called, and the loop has exited
C36_Witness ==
    /\ daemon.shutdown
    /\ syncTasks.loop.pc = "exited"
    /\ ~daemon.status.is_running
    /\ syncLog.attempts = 1
    /\ daemon.status.sync_count = 1

\* The attempts that have not yet updated the status
attempts_in_progress == Cardinality({t \in DOMAIN syncTasks : syncTasks[t].pc \in {"first", "second", "status"}})

\* C37: a Replica never creates or uploads a snapshot and a Master never
\* downloads or applies one, in the loop and in sync_now; every sync attempt
\* that has finished counted once, in sync_count or in error_count.
C37_SingleWriter ==
    /\ \A i \in DOMAIN syncLog.calls :
          /\ daemon.role = "Replica" =>
                syncLog.calls[i].call \notin {"create_snapshot", "upload_snapshot"}
          /\ daemon.role = "Master" =>
                syncLog.calls[i].call \notin {"download_latest_snapshot", "apply_snapshot"}
    /\ daemon.status.sync_count + daemon.status.error_count
          = syncLog.attempts - attempts_in_progress

\* a replica that synced by sync_now and in the loop, once with success and
\* once with an error
C37_Witness ==
    /\ daemon.role = "Replica"
    /\ daemon.status.sync_count = 1 /\ daemon.status.error_count = 1
    /\ \E i, j \in DOMAIN syncLog.calls :
          /\ syncLog.calls[i].task = "now" /\ syncLog.calls[j].task = "loop"
          /\ syncLog.calls[j].call = "apply_snapshot"

----------------------------------------------------------------------------
(* The results of scrub (checked under SpecScrub) *)

\* How often the id is among the stripes handed to scrub, and among its results
times_given(id) == Cardinality({p \in DOMAIN stripes : stripes[p].id = id})
times_returned(id) == Cardinality({i \in DOMAIN run.results : run.results[i].stripe_id = id})

\* The stripes with the id
stripes_of(id) == {p \in DOMAIN stripes : stripes[p].id = id}

\* C38: scrub returns one ScrubResult for every stripe it was given, in
\* whatever order the stripes of a batch complete, and in every result
\* verified_blocks + missing_blocks is the number of blocks of the stripe.
C38_OneResultPerStripe ==
    InScrub(run) =>
        /\ run.pc = "done" =>
              /\ Len(run.results) = Len(stripes)
              /\ \A p \in DOMAIN stripes : times_returned(stripes[p].id) = times_given(stripes[p].id)
        /\ \A i \in DOMAIN run.results :
              /\ stripes_of(run.results[i].stripe_id) # {}
              /\ \A p \in stripes_of(run.results[i].stripe_id) :
                    run.results[i].verified_blocks + run.results[i].missing_blocks
                       = Cardinality(DOMAIN stripes[p].stripe.blocks)

\* a scrub of two stripes in one batch has returned; the second stripe
\* completed first, and a block of a stripe was missing
C38_Witness ==
    /\ InScrub(run) /\ run.pc = "done"
    /\ run.batch_size = 2
    /\ Len(run.results) = 2
    /\ run.results[1].stripe_id = stripes[2].id
    /\ \E i \in DOMAIN run.results :
          run.results[i].missing_blocks > 0 /\ run.results[i].verified_blocks > 0

----------------------------------------------------------------------------
(* cache/lru.rs: LruCache::compact *)

\* items.sort_by_key(|(_, g)| *g): the keys of positions by their generation
\* (no two keys have the same generation)
RECURSIVE keys_by_generation(_)
keys_by_generation(pos) ==
    IF DOMAIN pos = {} THEN <<>>
    ELSE LET first == CHOOSE k \in DOMAIN pos : \A j \in DOMAIN pos : pos[k] <= pos[j]
         IN <<first>> \o keys_by_generation(positions_remove(pos, first))

\* LruCache::compact
lru_compact(c) == [c EXCEPT !.order = keys_by_generation(c.positions)]

\* The keys that pop_oldest returns, called until it returns None
RECURSIVE pop_all(_)
pop_all(c) ==
    LET r == pop_oldest(c, <<>>)
    IN IF is_none(r.returned) THEN <<>> ELSE <<r.returned.v>> \o pop_all(r.cache)

\* LruCache::len
lru_len(c) == Cardinality(DOMAIN c.positions)

\* compact is called; the log keeps what pop_oldest would have returned
\* before it and what it returns after it
LruCompact ==
    /\ lruLog.pop.op # "compact"
    /\ lru_set(lru_compact(lru_cache))
    /\ lruLog' = [lruLog EXCEPT !.pop =
           [op |-> "compact",
            pops_before |-> pop_all(lru_cache),
            pops_after |-> pop_all(lru_compact(lru_cache)),
            len_before |-> lru_len(lru_cache),
            len_after |-> lru_len(lru_compact(lru_cache)),
            tracked_before |-> DOMAIN positions,
            tracked_after |-> DOMAIN lru_compact(lru_cache).positions]]
    /\ UNCHANGED notLru

\* insert, touch, remove and compact
LruCompactNext ==
    \/ \E key \in Keys : LruInsert(key)
    \/ \E key \in Keys : LruTouch(key)
    \/ \E key \in Keys : LruRemove(key)
    \/ LruCompact

SpecLruCompact == LruInit /\ [][LruCompactNext]_vars

\* C39: after any sequence of insert, touch and remove, repeated pop_oldest
\* returns the same keys in the same order with and without a compact before
\* it, and compact leaves len and the tracked keys as they were.
C39_CompactTransparent ==
    lruLog.pop.op = "compact" =>
        /\ lruLog.pop.pops_before = lruLog.pop.pops_after
        /\ lruLog.pop.len_before = lruLog.pop.len_after
        /\ lruLog.pop.tracked_before = lruLog.pop.tracked_after

\* compact leaves len and the tracked keys as they were, and where no key was
\* touched or inserted again the keys pop_oldest returns as well
CompactKeepsTracked ==
    lruLog.pop.op = "compact" =>
        /\ lruLog.pop.len_before = lruLog.pop.len_after
        /\ lruLog.pop.tracked_before = lruLog.pop.tracked_after
        /\ Len(order) = lruLog.pop.len_after
        /\ lruLog.calls = Len(lruLog.pop.pops_before) =>
              lruLog.pop.pops_before = lruLog.pop.pops_after

----------------------------------------------------------------------------
(* fs/overlay/inode.rs: OverlayInodeManager.  An OverlayInode is kept by its
   ino and its path, the fields the two tables are about. *)

MaxOverlayCalls == 3   \* calls on one manager after new

OverlayInos == {1, 2, 3}
OverlayPaths == {"/", "/a", "/b"}

\* The inodes handed to register and update
OverlayInodes == [ino : OverlayInos, path : OverlayPaths]

\* OverlayInode::root
OverlayInode_root == [ino |-> 1, path |-> "/"]

\* HashMap::insert and HashMap::remove
map_insert(map, key, value) ==
    [k \in DOMAIN map \cup {key} |-> IF k = key THEN value ELSE map[k]]
map_remove(map, key) == [k \in DOMAIN map \ {key} |-> map[k]]

\* OverlayInodeManager::register
overlay_register(mgr, node) ==
    [mgr EXCEPT !.inodes = map_insert(@, node.ino, node),
                !.path_to_ino = map_insert(@, node.path, node.ino)]

\* OverlayInodeManager::new
OverlayInodeManager_new ==
    overlay_register([next_ino |-> 2, inodes |-> <<>>, path_to_ino |-> <<>>],
                     OverlayInode_root)

\* OverlayInodeManager::update
overlay_update(mgr, ino, node) ==
    LET old_path == IF ino \in DOMAIN mgr.inodes THEN Some(mgr.inodes[ino].path) ELSE None
        inserted == [mgr EXCEPT !.inodes = map_insert(@, ino, node)]
    IN IF is_some(old_path) /\ old_path.v # node.path
       THEN [inserted EXCEPT !.path_to_ino =
                map_insert(map_remove(@, old_path.v), node.path, ino)]
       ELSE inserted

\* OverlayInodeManager::remove
overlay_remove(mgr, ino) ==
    IF ino \in DOMAIN mgr.inodes
    THEN [mgr EXCEPT !.inodes = map_remove(@, ino),
                     !.path_to_ino = map_remove(@, mgr.inodes[ino].path)]
    ELSE mgr

\* OverlayInodeManager::invalidate_path
overlay_invalidate_path(mgr, path) ==
    IF path \in DOMAIN mgr.path_to_ino
    THEN [mgr EXCEPT !.path_to_ino = map_remove(@, path),
                     !.inodes = map_remove(@, mgr.path_to_ino[path])]
    ELSE mgr

OverlayNew ==
    /\ overlay = OverlayInodeManager_new
    /\ overlayLog = [calls |-> 0, allocated |-> <<>>, fresh |-> TRUE]

\* alloc_ino
OverlayAllocIno ==
    /\ overlayLog.calls < MaxOverlayCalls
    /\ overlay' = [overlay EXCEPT !.next_ino = @ + 1]
    /\ overlayLog' = [overlayLog EXCEPT !.calls = @ + 1,
                                        !.allocated = Append(@, overlay.next_ino)]
    /\ UNCHANGED notOverlay

\* register; fresh stays true while the callers register only inodes whose
\* ino and path the tables do not hold
OverlayRegister(node) ==
    /\ overlayLog.calls < MaxOverlayCalls
    /\ overlay' = overlay_register(overlay, node)
    /\ overlayLog' = [overlayLog EXCEPT
           !.calls = @ + 1,
           !.fresh = @ /\ node.ino \notin DOMAIN overlay.inodes
                       /\ node.path \notin DOMAIN overlay.path_to_ino]
    /\ UNCHANGED notOverlay

\* update; fresh stays true while the callers update registered inodes, under
\* their own ino, to their own path or to one the tables do not hold
OverlayUpdate(ino, node) ==
    /\ overlayLog.calls < MaxOverlayCalls
    /\ overlay' = overlay_update(overlay, ino, node)
    /\ overlayLog' = [overlayLog EXCEPT
           !.calls = @ + 1,
           !.fresh = @ /\ ino \in DOMAIN overlay.inodes /\ node.ino = ino
                       /\ (node.path \in DOMAIN overlay.path_to_ino
                             => overlay.path_to_ino[node.path] = ino)]
    /\ UNCHANGED notOverlay

OverlayRemove(ino) ==
    /\ overlayLog.calls < MaxOverlayCalls
    /\ overlay' = overlay_remove(overlay, ino)
    /\ overlayLog' = [overlayLog EXCEPT !.calls = @ + 1]
    /\ UNCHANGED notOverlay

OverlayInvalidatePath(path) ==
    /\ overlayLog.calls < MaxOverlayCalls
    /\ overlay' = overlay_invalidate_path(overlay, path)
    /\ overlayLog' = [overlayLog EXCEPT !.calls = @ + 1]
    /\ UNCHANGED notOverlay

OverlayNext ==
    \/ OverlayAllocIno
    \/ \E node \in OverlayInodes : OverlayRegister(node)
    \/ \E ino \in OverlayInos, node \in OverlayInodes : OverlayUpdate(ino, node)
    \/ \E ino \in OverlayInos : OverlayRemove(ino)
    \/ \E path \in OverlayPaths : OverlayInvalidatePath(path)

OverlayInit == EarlierIdle /\ MiddleIdle /\ FlushIdle /\ RaidMigrateIdle /\ SyncIdle /\ OverlayNew

SpecOverlay == OverlayInit /\ [][OverlayNext]_vars

\* The two tables agree
tables_agree(mgr) ==
    /\ \A path \in DOMAIN mgr.path_to_ino :
          /\ mgr.path_to_ino[path] \in DOMAIN mgr.inodes
          /\ mgr.inodes[mgr.path_to_ino[path]].path = path
    /\ \A ino \in DOMAIN mgr.inodes :
          /\ mgr.inodes[ino].path \in DOMAIN mgr.path_to_ino
          /\ mgr.path_to_ino[mgr.inodes[ino].path] = ino

FreshTablesAgree ==
    overlayLog.fresh =>
        /\ tables_agree(overlay)
        /\ \A i \in DOMAIN overlayLog.allocated : overlayLog.allocated[i] # 1

====
